---- MODULE Spec2Model ----
(***************************************************************************)
(* The taker ("Bob") swap driver of xmr-btc-swap,                          *)
(* swap/src/protocol/bob/swap.rs: run / run_until / run_until_internal,    *)
(* together with the environment it talks to: the Bitcoin chain (lock,     *)
(* cancel, redeem and refund transactions, the two relative timelocks),    *)
(* the maker ("Alice") and the database that keeps the latest state.       *)
(*                                                                         *)
(* One call of run_until_internal is one "step".  A step is split at its   *)
(* suspension points that matter: the top of the function (target check    *)
(* and the code of the match arm up to the select! or to the end of the    *)
(* arm), the select! itself, the wait inside the Err arm of                *)
(* watch_for_transfer, and the insert_latest_state that follows the match. *)
(* Environment actions (blocks, the maker) interleave between them.        *)
(***************************************************************************)
EXTENDS Integers, Sequences, FiniteSets, TLC

VARIABLES
    state,        \* BobState the current call of run_until_internal was given
    new_state,    \* `new_state` of swap.rs:68 once the match arm has computed it
    pc,           \* position inside run_until_internal
    result,       \* "running", or how run_until ended: "ok", "err", "crashed"
    target,       \* is_target_state, as the set of tags it accepts
    acts,         \* calls that completed successfully in the current step, in order
    db,           \* Database: the latest state stored under swap_id
    persisted,    \* every state insert_latest_state stored, oldest first
    start,        \* swap.state of the first run
    runs,         \* number of runs of the driver so far (the first one included)
    setup_done,   \* execution_setup has succeeded for this swap
    effects,      \* what the taker made observable: effect -> number of times
    lock_conf,    \* lock tx: -1 unseen, 0 in mempool, n > 0 confirmations (saturating)
    cancel_conf,  \* cancel tx: same encoding, saturating at the punish timelock
    redeemed,     \* the maker's redeem transaction is on-chain
    proof_sent,   \* the maker has sent the transfer proof
    xmr_lock,     \* the maker's Monero lock as the wallet sees it: "none", "ok", "short"
    encsig_rcvd,  \* the maker holds the taker's encrypted signature
    maker_up,     \* the maker can be dialed
    now,            \* the clock Instant::now() reads
    last_ping,      \* Client::last_ping
    latest_block,   \* Client::latest_block
    script_history, \* Client::script_history: script -> is it a key, and its rows
    electrum,       \* the Electrum server: its tip, the header notifications it queued, its histories
    ret,            \* the last call of Client::status_of_script and what it returned
    calc,           \* the last application of a function of ScriptStatus / Confirmed
    watch,          \* one future of Wallet::watch_until_status (or of broadcast's finality wait)
    asb,            \* the maker's binary: swap channel, dispatcher, swap tasks, log
    behaviour,      \* alice::encrypted_signature::Behaviour: the last event and its OutEvent
    wallet_tasks,   \* the tasks that share one bitcoin::Wallet: where each is in its call
    mutexes         \* Wallet::client and Wallet::wallet: holder and waiters of each Mutex

driverVars == <<state, new_state, pc, result, target, acts, db, persisted, start, runs, setup_done, effects>>
chainVars == <<lock_conf, cancel_conf, redeemed>>
makerVars == <<proof_sent, xmr_lock, encsig_rcvd, maker_up>>
watcherVars == <<now, last_ping, latest_block, script_history, electrum, ret, calc>>
serviceVars == <<watch, asb, behaviour, wallet_tasks, mutexes>>
vars == <<driverVars, chainVars, makerVars, watcherVars, serviceVars>>

(***************************************************************************)
(* Bounds of the model.                                                    *)
(***************************************************************************)
\* env_config.bitcoin_cancel_timelock, in blocks on the lock transaction
CancelTimelock == 2
\* env_config.bitcoin_punish_timelock, in blocks on the cancel transaction
PunishTimelock == 1
\* how often the driver is run for one swap (the first run, then resumptions)
MaxRuns == 2
\* how many times the model lets one swap persist a terminal state
MaxTerminalWrites == 2

\* tx_lock_id payloads a swap can carry (two, so that a changed payload shows)
TxIds == {1, 2}
NoTx == 0

(***************************************************************************)
(* BobState.  The payload kept is the lock transaction id; Started and     *)
(* SafelyAborted carry none.                                               *)
(***************************************************************************)
Tags == {"Started", "ExecutionSetupDone", "BtcLocked", "XmrLockProofReceived",
         "XmrLocked", "EncSigSent", "BtcRedeemed", "XmrRedeemed",
         "CancelTimelockExpired", "BtcCancelled", "BtcRefunded", "BtcPunished",
         "SafelyAborted"}

BobState(tag, id) == [tag |-> tag, tx_lock_id |-> id]

NoState == [tag |-> "None", tx_lock_id |-> NoTx]

\* swap.rs:16 is_complete
is_complete(s) == s.tag \in {"BtcRefunded", "XmrRedeemed", "BtcPunished", "SafelyAborted"}

\* The target predicates run_until is called with: is_complete (run), and
\* predicates that stop at one intermediate state.
Complete == {"BtcRefunded", "XmrRedeemed", "BtcPunished", "SafelyAborted"}

Targets == {Complete, {"BtcLocked"}, {"EncSigSent"}}

is_target_state(s) == s.tag \in target

(***************************************************************************)
(* The chain, the maker and the effects the taker makes observable.        *)
(***************************************************************************)
Effects == {"broadcast_lock", "submit_tx_cancel", "refund_btc",
            "send_encrypted_signature", "sweep_all"}

Min(a, b) == IF a < b THEN a ELSE b

Range(seq) == {seq[i] : i \in DOMAIN seq}

\* ExpiredTimelocks as current_epoch / expired_timelock derive it from the
\* status of the lock and the cancel transaction (spec.md, section 3).
ExpiredTimelocks ==
    IF cancel_conf >= PunishTimelock THEN "Punish"
    ELSE IF lock_conf >= CancelTimelock THEN "Cancel"
    ELSE "None"

\* What wait_for_cancel_timelock_to_expire polls for: the lock transaction is
\* confirmed with cancel_timelock blocks.
cancel_timelock_reached == lock_conf >= CancelTimelock

\* The effects a swap has behind it when it is stored in state `tag`.
EffectsBehind(tag) ==
    [e \in Effects |->
        IF \/ e = "broadcast_lock" /\ tag \notin {"Started", "ExecutionSetupDone", "SafelyAborted"}
           \/ e = "send_encrypted_signature" /\ tag \in {"EncSigSent", "BtcRedeemed", "XmrRedeemed"}
           \/ e = "sweep_all" /\ tag = "XmrRedeemed"
           \/ e = "refund_btc" /\ tag = "BtcRefunded"
        THEN 1 ELSE 0]

\* The environments a swap stored in state `tag` can be resumed in:
\* <<lock_conf, cancel_conf, redeemed, proof_sent, xmr_lock, encsig_rcvd>>.
EnvOf(tag) ==
    CASE tag \in {"Started", "ExecutionSetupDone", "SafelyAborted"} ->
            {<<-1, -1, FALSE, FALSE, "none", FALSE>>}
      [] tag = "BtcLocked" ->
            {<<l, -1, FALSE, FALSE, "none", FALSE>> : l \in 0..CancelTimelock}
      [] tag = "XmrLockProofReceived" ->
            {<<l, -1, FALSE, TRUE, "none", FALSE>> : l \in 0..CancelTimelock}
      [] tag = "XmrLocked" ->
            {<<l, -1, FALSE, TRUE, "ok", FALSE>> : l \in 0..CancelTimelock}
      [] tag = "EncSigSent" ->
            {<<l, -1, FALSE, TRUE, "ok", e>> : l \in 0..CancelTimelock, e \in BOOLEAN}
      [] tag \in {"BtcRedeemed", "XmrRedeemed"} ->
            {<<l, -1, TRUE, TRUE, "ok", TRUE>> : l \in 1..CancelTimelock}
      [] tag = "CancelTimelockExpired" ->
            {<<CancelTimelock, c, FALSE, FALSE, "none", FALSE>> : c \in -1..PunishTimelock}
      [] tag \in {"BtcCancelled", "BtcRefunded"} ->
            {<<CancelTimelock, c, FALSE, FALSE, "none", FALSE>> : c \in 0..PunishTimelock}
      [] tag = "BtcPunished" ->
            {<<CancelTimelock, PunishTimelock, FALSE, FALSE, "none", FALSE>>}

(***************************************************************************)
(* bitcoin/wallet.rs: ScriptStatus, Confirmed and the Electrum Client.     *)
(***************************************************************************)
\* width of u32 in the model, in bits
U32Bits == 3
\* Client::interval, in ticks of the clock
Interval == 1
\* the clock stops here
MaxTime == 3
\* the highest block the Electrum server reaches
MaxTip == 2
\* the most rows the Electrum server keeps for one script
MaxRows == 2

RECURSIVE Pow2(_)
Pow2(n) == IF n = 0 THEN 1 ELSE 2 * Pow2(n - 1)

\* u32::MAX
U32Max == Pow2(U32Bits) - 1
U32 == 0..U32Max

\* wallet.rs:448-453 and 464-470: a ScriptStatus, with the depth of Confirmed
Unseen == [kind |-> "Unseen", depth |-> 0]
InMempool == [kind |-> "InMempool", depth |-> 0]
ScriptStatus_Confirmed(inner) == [kind |-> "Confirmed", depth |-> inner.depth]

\* wallet.rs:473-475 Confirmed::new
Confirmed_new(depth) == [depth |-> depth]

\* u32::saturating_sub
saturating_sub(a, b) == IF a >= b THEN a - b ELSE 0

\* u32::wrapping_sub, the subtraction that wraps around
wrapping_sub(a, b) == (a - b + U32Max + 1) % (U32Max + 1)

\* Variant of from_inclusion_and_latest_block that subtracts without saturating.
from_inclusion_and_latest_block_wrapping(inclusion_height, latest) ==
    Confirmed_new(wrapping_sub(latest, inclusion_height))

\* wallet.rs:483-487
from_inclusion_and_latest_block(inclusion_height, latest) ==
    Confirmed_new(saturating_sub(latest, inclusion_height))

\* `self.depth + 1` on u32 overflows for depth = u32::MAX: a build with
\* overflow checks panics there, a build without them wraps around.
add_overflows(a, b) == a + b > U32Max

\* wallet.rs:489-491 (the value, when the addition does not panic)
confirmations(c) == (c.depth + 1) % (U32Max + 1)

\* wallet.rs:493-498
meets_target(c, t) == confirmations(c) >= t

\* wallet.rs:503-505
is_confirmed(status) == status.kind = "Confirmed"

\* wallet.rs:508-516
is_confirmed_with(status, t) ==
    IF status.kind = "Confirmed" THEN meets_target(Confirmed_new(status.depth), t) ELSE FALSE

\* wallet.rs:518-520
has_been_seen(status) == status.kind \in {"InMempool", "Confirmed"}

\* wallet.rs:456-461
from_confirmations(n) ==
    IF n = 0 THEN InMempool ELSE ScriptStatus_Confirmed(Confirmed_new(n - 1))

\* The scripts the wallet is asked about.
Scripts == {"lock", "cancel"}

\* GetHistoryRes: one row of a script's history
Row(tx, h) == [tx_hash |-> tx, height |-> h]

\* What status_of_script returns besides a ScriptStatus: Err, and the value
\* of `ret` before any call.
Err == [kind |-> "Err", depth |-> 0]
NoRet == [seq |-> 0, tx |-> NoTx, script |-> "none", faults |-> {}, out |-> [kind |-> "None", depth |-> 0]]

NoCalc == [fn |-> "none", a |-> 0, b |-> 0, num |-> 0, bool |-> FALSE, status |-> Unseen, panicked |-> FALSE]

\* wallet.rs:315-330 Client::new: subscribed to the headers of a server at
\* block 0, nothing watched yet.
NewClient ==
    /\ now = 0
    /\ last_ping = 0
    /\ latest_block = 0
    /\ script_history = [s \in Scripts |-> [key |-> FALSE, rows |-> <<>>]]
    /\ electrum = [tip |-> 0, headers |-> <<>>, history |-> [s \in Scripts |-> <<>>]]
    /\ ret = NoRet

\* Option<ScriptStatus>::None
NoStatus == [kind |-> "None", depth |-> 0]

\* No future of watch_until_status exists.
NoWatch ==
    [pc |-> "idle", tx |-> NoTx, script |-> "none", fn |-> "none", conf_target |-> 0,
     last_status |-> NoStatus, seen_confirmations |-> 0, wake |-> 0,
     polls |-> 0, evals |-> 0, logs |-> 0, out |-> "none",
     broadcast |-> "none", published |-> FALSE]

\* The swaps the maker's event loop hands to the dispatcher.
MaxSwaps == 3
SwapIds == 1..MaxSwaps

\* asb.rs:96-108: the event loop and the channel are created, nothing is spawned
NewAsb ==
    [channel |-> <<>>, created |-> 0, tasks |-> [id \in SwapIds |-> "none"],
     spawns |-> [id \in SwapIds |-> 0], log |-> <<>>,
     dispatcher |-> "recv", event_loop |-> "running"]

\* No request/response event has reached the behaviour.
NoEvent ==
    [event |-> [kind |-> "none", peer |-> 0, request_id |-> 0, request |-> 0,
                channel |-> 0, error |-> "none"],
     out |-> [kind |-> "none", peer |-> 0, msg |-> 0, channel |-> 0, error |-> <<>>]]

\* The tasks that call into the shared wallet.
MaxTasks == 2
TaskIds == 1..MaxTasks
NoTask == 0

\* No task is inside a call of the wallet.
NoCall == [pc |-> "idle", op |-> "none", wake |-> 0]
TasksIdle == [t \in TaskIds |-> NoCall]

\* wallet.rs:59-60 Mutex::new: both mutexes are free and nobody waits
NewMutexes ==
    [m \in {"client", "wallet"} |-> [holder |-> NoTask, waiters |-> <<>>]]

\* Nothing but the taker's swap and the watcher is in use.
ServicesIdle ==
    /\ watch = NoWatch
    /\ asb = NewAsb
    /\ behaviour = NoEvent
    /\ wallet_tasks = TasksIdle
    /\ mutexes = NewMutexes

\* The wallet is not in use.
WatcherIdle ==
    /\ NewClient
    /\ calc = NoCalc

StartStates ==
    {BobState(t, NoTx) : t \in {"Started", "SafelyAborted"}}
    \cup {BobState(t, i) : t \in Tags \ {"Started", "SafelyAborted"}, i \in TxIds}

\* bob::Swap as run_until receives it: swap.state is the state the database
\* holds for swap_id (a new swap starts in Started).
SwapInit ==
    /\ start \in StartStates
    /\ state = start
    /\ db = start
    /\ target \in Targets
    /\ new_state = NoState
    /\ pc = "top"
    /\ result = "running"
    /\ acts = <<>>
    /\ persisted = <<>>
    /\ runs = 1
    /\ setup_done = (start.tag # "Started")
    /\ effects = EffectsBehind(start.tag)
    /\ \E env \in EnvOf(start.tag) :
          /\ lock_conf = env[1]
          /\ cancel_conf = env[2]
          /\ redeemed = env[3]
          /\ proof_sent = env[4]
          /\ xmr_lock = env[5]
          /\ encsig_rcvd = env[6]
    /\ maker_up \in BOOLEAN

Init ==
    /\ SwapInit
    /\ WatcherIdle
    /\ ServicesIdle

(***************************************************************************)
(* Helpers of the driver's steps.  A fallible call (`?`) either succeeds   *)
(* or ends the run with an error; F says whether the environment may make  *)
(* a call fail on its own, f is the index of the call that does (0: none). *)
(* dial fails exactly when the maker cannot be reached.                    *)
(***************************************************************************)
FailChoices(F, n) == IF F THEN 0..n ELSE {0}

IndexOf(calls, c) == IF c \in Range(calls) THEN CHOOSE i \in DOMAIN calls : calls[i] = c ELSE 0

\* Index of the first call of `calls` that fails, 0 if all succeed.
FirstFail(calls, f) ==
    LET d == IndexOf(calls, "dial") IN
    IF ~maker_up /\ d # 0 /\ (f = 0 \/ f > d) THEN d ELSE f

\* The run is at the top of run_until_internal with a state of tag `tag`
\* that is not a target: the match arm for `tag` runs (swap.rs:63-68).
AtArm(tag) ==
    /\ result = "running"
    /\ pc = "top"
    /\ ~is_target_state(state)
    /\ state.tag = tag

\* The effects of the calls `done` on the chain, the maker and the tally.
Observe(done) ==
    /\ effects' = [e \in Effects |-> effects[e] + (IF e \in Range(done) THEN 1 ELSE 0)]
    /\ lock_conf' = IF "broadcast_lock" \in Range(done) /\ lock_conf = -1 THEN 0 ELSE lock_conf
    /\ cancel_conf' = IF "submit_tx_cancel" \in Range(done) /\ cancel_conf = -1 THEN 0 ELSE cancel_conf
    /\ encsig_rcvd' = (encsig_rcvd \/ "send_encrypted_signature" \in Range(done))
    /\ setup_done' = (setup_done \/ "execution_setup" \in Range(done))
    /\ UNCHANGED <<redeemed, proof_sent, xmr_lock, maker_up>>

\* A `?` returned the error: run_until ends with Err, nothing is stored.
Bail(done) ==
    /\ acts' = done
    /\ result' = "err"
    /\ pc' = "done"
    /\ new_state' = NoState
    /\ Observe(done)

\* The match arm evaluated to `ns` (swap.rs:68): next is insert_latest_state.
Computed(done, ns) ==
    /\ acts' = done
    /\ new_state' = ns
    /\ pc' = "persist"
    /\ result' = result
    /\ Observe(done)

\* The arm reached its select! with the calls `done` behind it.
Selecting(done) ==
    /\ acts' = done
    /\ new_state' = NoState
    /\ pc' = "select"
    /\ result' = result
    /\ Observe(done)

\* A straight-line arm: the calls in order, each with `?`, then `ns`.
Straight(calls, f, ns) ==
    LET k == FirstFail(calls, f) IN
    IF k = 0 THEN Computed(calls, ns) ELSE Bail(SubSeq(calls, 1, k - 1))

\* The calls before a select!, in order, each with `?`.
UpToSelect(calls, f) ==
    LET k == FirstFail(calls, f) IN
    IF k = 0 THEN Selecting(calls) ELSE Bail(SubSeq(calls, 1, k - 1))

frame == <<state, target, db, persisted, start, runs>>

(***************************************************************************)
(* The match arms of run_until_internal.                                   *)
(***************************************************************************)
\* swap.rs:64-66
ReturnTarget ==
    /\ result = "running"
    /\ pc = "top"
    /\ is_target_state(state)
    /\ result' = "ok"
    /\ pc' = "done"
    /\ UNCHANGED <<state, new_state, target, acts, db, persisted, start, runs, setup_done, effects>>
    /\ UNCHANGED <<chainVars, makerVars>>
    /\ UNCHANGED <<watcherVars, serviceVars>>

\* swap.rs:69-83; execution_setup yields State2, which holds the lock transaction
StepStarted(F) ==
    /\ AtArm("Started")
    /\ \E f \in FailChoices(F, 4), id \in TxIds :
          Straight(<<"new_address", "dial", "request_spot_price", "execution_setup">>, f,
                   BobState("ExecutionSetupDone", id))
    /\ UNCHANGED frame
    /\ UNCHANGED <<watcherVars, serviceVars>>

\* Variant of the arm that locks without dialing the maker first.
StepExecutionSetupDone_without_dial(F) ==
    /\ AtArm("ExecutionSetupDone")
    /\ \E f \in FailChoices(F, 3) :
          LET calls == <<"lock_btc", "sign_and_finalize", "broadcast_lock">> IN
          IF f = 0
          THEN Computed(calls, BobState("BtcLocked", state.tx_lock_id))
          ELSE Bail(SubSeq(calls, 1, f - 1))
    /\ UNCHANGED frame
    /\ UNCHANGED <<watcherVars, serviceVars>>

\* swap.rs:84-96
StepExecutionSetupDone(F) ==
    /\ AtArm("ExecutionSetupDone")
    /\ \E f \in FailChoices(F, 4) :
          Straight(<<"dial", "lock_btc", "sign_and_finalize", "broadcast_lock">>, f,
                   BobState("BtcLocked", state.tx_lock_id))
    /\ UNCHANGED frame
    /\ UNCHANGED <<watcherVars, serviceVars>>

\* Variant of cancel that skips CancelTimelockExpired.
cancel_to_BtcCancelled(s) == BobState("BtcCancelled", s.tx_lock_id)

\* state.cancel() and the CancelTimelockExpired the arms build from it
cancel(s) == BobState("CancelTimelockExpired", s.tx_lock_id)

\* The run is suspended in the select! of the arm for `tag`.
AtSelect(tag) ==
    /\ result = "running"
    /\ pc = "select"
    /\ state.tag = tag

\* The branch `_ = cancel_timelock_expires => ...` of a select!: it is taken
\* when wait_for_cancel_timelock_to_expire completes, with Ok (the lock
\* transaction has cancel_timelock confirmations) or with Err (the pattern
\* `_` matches both).
CancelBranch(F, ok) ==
    /\ IF ok THEN cancel_timelock_reached ELSE F
    /\ Computed(IF ok THEN Append(acts, "wait_for_cancel_timelock_to_expire") ELSE acts,
                cancel(state))

\* swap.rs:99-112 and 132-135
StepBtcLocked(F) ==
    /\ AtArm("BtcLocked")
    /\ \E f \in FailChoices(F, 3) :
          IF ExpiredTimelocks = "None"
          THEN UpToSelect(<<"current_epoch", "dial", "block_height">>, f)
          ELSE f <= 1 /\ Straight(<<"current_epoch">>, f, cancel(state))
    /\ UNCHANGED frame
    /\ UNCHANGED <<watcherVars, serviceVars>>

\* swap.rs:113-131: select! polls its branches in an order it draws at random
\* and takes the first that is ready, so either ready branch can be taken.
SelectBtcLocked(F) ==
    /\ AtSelect("BtcLocked")
    /\ \E b \in {"transfer_proof", "cancel"}, ok \in BOOLEAN :
          IF b = "transfer_proof"
          THEN /\ IF ok THEN proof_sent ELSE F
               /\ IF ok
                  THEN Computed(Append(acts, "recv_transfer_proof"),
                                BobState("XmrLockProofReceived", state.tx_lock_id))
                  ELSE Bail(acts)
          ELSE CancelBranch(F, ok)
    /\ UNCHANGED frame
    /\ UNCHANGED <<watcherVars, serviceVars>>

\* swap.rs:137-146 and 163-165
StepXmrLockProofReceived(F) ==
    /\ AtArm("XmrLockProofReceived")
    /\ \E f \in FailChoices(F, 2) :
          IF ExpiredTimelocks = "None"
          THEN UpToSelect(<<"current_epoch", "dial">>, f)
          ELSE f <= 1 /\ Straight(<<"current_epoch">>, f, cancel(state))
    /\ UNCHANGED frame
    /\ UNCHANGED <<watcherVars, serviceVars>>

\* The Err arm of watch_for_transfer (swap.rs:151-153): the run now awaits
\* wait_for_cancel_timelock_to_expire; the warning it logged is kept in acts.
TransferFailed ==
    /\ acts' = Append(acts, "warn_insufficient_monero")
    /\ new_state' = NoState
    /\ pc' = "wait_cancel"
    /\ result' = result
    /\ Observe(<<>>)

\* swap.rs:147-162
SelectXmrLockProofReceived(F) ==
    /\ AtSelect("XmrLockProofReceived")
    /\ \E b \in {"watch_for_transfer", "cancel"}, ok \in BOOLEAN :
          IF b = "watch_for_transfer"
          THEN /\ IF ok THEN xmr_lock = "ok" ELSE (xmr_lock = "short" \/ F)
               /\ IF ok
                  THEN Computed(Append(acts, "watch_for_transfer"),
                                BobState("XmrLocked", state.tx_lock_id))
                  ELSE TransferFailed
          ELSE CancelBranch(F, ok)
    /\ UNCHANGED frame
    /\ UNCHANGED <<watcherVars, serviceVars>>

\* Variant of the wait that takes the watcher's error for the expiry.
WaitCancelAfterTransferFailed_ignoring_error(F) ==
    /\ result = "running"
    /\ pc = "wait_cancel"
    /\ \E ok \in BOOLEAN : CancelBranch(F, ok)
    /\ UNCHANGED frame
    /\ UNCHANGED <<watcherVars, serviceVars>>

\* swap.rs:153-155
WaitCancelAfterTransferFailed(F) ==
    /\ result = "running"
    /\ pc = "wait_cancel"
    /\ \E ok \in BOOLEAN :
          /\ IF ok THEN cancel_timelock_reached ELSE F
          /\ IF ok
             THEN Computed(Append(acts, "wait_for_cancel_timelock_to_expire"), cancel(state))
             ELSE Bail(acts)
    /\ UNCHANGED frame
    /\ UNCHANGED <<watcherVars, serviceVars>>

\* swap.rs:167-172 and 181-183
StepXmrLocked(F) ==
    /\ AtArm("XmrLocked")
    /\ \E f \in FailChoices(F, 2) :
          IF ExpiredTimelocks = "None"
          THEN UpToSelect(<<"expired_timelock", "dial">>, f)
          ELSE f <= 1 /\ Straight(<<"expired_timelock">>, f, cancel(state))
    /\ UNCHANGED frame
    /\ UNCHANGED <<watcherVars, serviceVars>>

\* swap.rs:173-180: the result of send_encrypted_signature is discarded (`_`);
\* the send succeeds when the maker acknowledges, and fails otherwise.
SelectXmrLocked(F) ==
    /\ AtSelect("XmrLocked")
    /\ \E b \in {"send_encrypted_signature", "cancel"}, ok \in BOOLEAN :
          IF b = "send_encrypted_signature"
          THEN /\ IF ok THEN maker_up ELSE (~maker_up \/ F)
               /\ Computed(IF ok THEN Append(acts, "send_encrypted_signature") ELSE acts,
                           BobState("EncSigSent", state.tx_lock_id))
          ELSE CancelBranch(F, ok)
    /\ UNCHANGED frame
    /\ UNCHANGED <<watcherVars, serviceVars>>

\* swap.rs:185-186 and 195-197
StepEncSigSent(F) ==
    /\ AtArm("EncSigSent")
    /\ \E f \in FailChoices(F, 1) :
          IF ExpiredTimelocks = "None"
          THEN UpToSelect(<<"expired_timelock">>, f)
          ELSE Straight(<<"expired_timelock">>, f, cancel(state))
    /\ UNCHANGED frame
    /\ UNCHANGED <<watcherVars, serviceVars>>

\* swap.rs:187-194
SelectEncSigSent(F) ==
    /\ AtSelect("EncSigSent")
    /\ \E b \in {"watch_for_redeem_btc", "cancel"}, ok \in BOOLEAN :
          IF b = "watch_for_redeem_btc"
          THEN /\ IF ok THEN redeemed ELSE F
               /\ IF ok
                  THEN Computed(Append(acts, "watch_for_redeem_btc"),
                                BobState("BtcRedeemed", state.tx_lock_id))
                  ELSE Bail(acts)
          ELSE CancelBranch(F, ok)
    /\ UNCHANGED frame
    /\ UNCHANGED <<watcherVars, serviceVars>>

\* Variant of the arm that sweeps before it has claimed and refreshed.
StepBtcRedeemed_sweep_first(F) ==
    /\ AtArm("BtcRedeemed")
    /\ \E f \in FailChoices(F, 3) :
          Straight(<<"sweep_all", "claim_xmr", "refresh">>, f,
                   BobState("XmrRedeemed", state.tx_lock_id))
    /\ UNCHANGED frame
    /\ UNCHANGED <<watcherVars, serviceVars>>

\* swap.rs:199-215
StepBtcRedeemed(F) ==
    /\ AtArm("BtcRedeemed")
    /\ \E f \in FailChoices(F, 3) :
          Straight(<<"claim_xmr", "refresh", "sweep_all">>, f,
                   BobState("XmrRedeemed", state.tx_lock_id))
    /\ UNCHANGED frame
    /\ UNCHANGED <<watcherVars, serviceVars>>

\* submit_tx_cancel is accepted when the cancel transaction is not on-chain yet,
\* its timelock has matured and the lock output is still unspent.
CancelAccepted == cancel_conf = -1 /\ cancel_timelock_reached /\ ~redeemed

\* swap.rs:216-226: check_for_tx_cancel finds the cancel transaction or fails
StepCancelTimelockExpired(F) ==
    /\ AtArm("CancelTimelockExpired")
    /\ \E found \in BOOLEAN, sub \in BOOLEAN :
          /\ IF found THEN cancel_conf >= 0 ELSE (cancel_conf = -1 \/ F)
          /\ IF found
             THEN sub /\ Computed(<<"check_for_tx_cancel">>,
                                  BobState("BtcCancelled", state.tx_lock_id))
             ELSE /\ IF sub THEN CancelAccepted ELSE (~CancelAccepted \/ F)
                  /\ IF sub
                     THEN Computed(<<"submit_tx_cancel">>,
                                   BobState("BtcCancelled", state.tx_lock_id))
                     ELSE Bail(<<>>)
    /\ UNCHANGED frame
    /\ UNCHANGED <<watcherVars, serviceVars>>

\* Variant of the arm that gives the swap up as punished once it is cancelled.
StepBtcCancelled_never_refunds(F) ==
    /\ AtArm("BtcCancelled")
    /\ \E f \in FailChoices(F, 1) :
          Straight(<<"expired_timelock">>, f, BobState("BtcPunished", state.tx_lock_id))
    /\ UNCHANGED frame
    /\ UNCHANGED <<watcherVars, serviceVars>>

\* Variant of the arm that publishes the refund whenever the swap is not punished.
StepBtcCancelled_refunds_before_expiry(F) ==
    /\ AtArm("BtcCancelled")
    /\ \E f \in FailChoices(F, 2) :
          IF ExpiredTimelocks = "Punish"
          THEN f <= 1 /\ Straight(<<"expired_timelock">>, f,
                                  BobState("BtcPunished", state.tx_lock_id))
          ELSE Straight(<<"expired_timelock", "refund_btc">>, f,
                        BobState("BtcRefunded", state.tx_lock_id))
    /\ UNCHANGED frame
    /\ UNCHANGED <<watcherVars, serviceVars>>

\* swap.rs:227-243
StepBtcCancelled(F) ==
    /\ AtArm("BtcCancelled")
    /\ \E f \in FailChoices(F, 2) :
          CASE ExpiredTimelocks = "None" ->
                  Bail(IF f = 1 THEN <<>> ELSE <<"expired_timelock">>)
            [] ExpiredTimelocks = "Cancel" ->
                  Straight(<<"expired_timelock", "refund_btc">>, f,
                           BobState("BtcRefunded", state.tx_lock_id))
            [] ExpiredTimelocks = "Punish" ->
                  f <= 1 /\ Straight(<<"expired_timelock">>, f,
                                     BobState("BtcPunished", state.tx_lock_id))
    /\ UNCHANGED frame
    /\ UNCHANGED <<watcherVars, serviceVars>>

TerminalWrites == Cardinality({i \in DOMAIN persisted : is_complete(persisted[i])})

\* Variant of the terminal arms that rebuilds the state with another payload.
StepTerminal_other_payload ==
    /\ \E tag \in Complete : AtArm(tag)
    /\ TerminalWrites < MaxTerminalWrites
    /\ \E id \in (TxIds \cup {NoTx}) \ {state.tx_lock_id} : Computed(<<>>, BobState(state.tag, id))
    /\ UNCHANGED frame
    /\ UNCHANGED <<watcherVars, serviceVars>>

\* swap.rs:244-247: the arms of the four terminal states
StepTerminal ==
    /\ \E tag \in Complete : AtArm(tag)
    /\ TerminalWrites < MaxTerminalWrites
    /\ Computed(<<>>, state)
    /\ UNCHANGED frame
    /\ UNCHANGED <<watcherVars, serviceVars>>

\* Variant of the tail that recurses without storing the new state.
Persist_without_insert(F) ==
    /\ result = "running"
    /\ pc = "persist"
    /\ state' = new_state
    /\ pc' = "top"
    /\ acts' = <<>>
    /\ new_state' = NoState
    /\ UNCHANGED <<db, persisted, result, target, start, runs, setup_done, effects>>
    /\ UNCHANGED <<chainVars, makerVars>>
    /\ UNCHANGED <<watcherVars, serviceVars>>

\* swap.rs:250-263: store new_state, then recurse with it
Persist(F) ==
    /\ result = "running"
    /\ pc = "persist"
    /\ \E ok \in (IF F THEN BOOLEAN ELSE {TRUE}) :
          IF ok
          THEN /\ db' = new_state
               /\ persisted' = Append(persisted, new_state)
               /\ state' = new_state
               /\ pc' = "top"
               /\ acts' = <<>>
               /\ result' = result
          ELSE /\ result' = "err"
               /\ pc' = "done"
               /\ UNCHANGED <<db, persisted, state, acts>>
    /\ new_state' = NoState
    /\ UNCHANGED <<target, start, runs, setup_done, effects>>
    /\ UNCHANGED <<chainVars, makerVars>>
    /\ UNCHANGED <<watcherVars, serviceVars>>

\* The process dies at a suspension point.
Crash ==
    /\ result = "running"
    /\ result' = "crashed"
    /\ pc' = "done"
    /\ new_state' = NoState
    /\ UNCHANGED <<state, target, acts, db, persisted, start, runs, setup_done, effects>>
    /\ UNCHANGED <<chainVars, makerVars>>
    /\ UNCHANGED <<watcherVars, serviceVars>>

\* The swap is run again with the state the database holds for swap_id.
Resume ==
    /\ result \in {"err", "crashed"}
    /\ runs < MaxRuns
    /\ runs' = runs + 1
    /\ state' = db
    /\ pc' = "top"
    /\ result' = "running"
    /\ acts' = <<>>
    /\ new_state' = NoState
    /\ UNCHANGED <<target, db, persisted, start, setup_done, effects>>
    /\ UNCHANGED <<chainVars, makerVars>>
    /\ UNCHANGED <<watcherVars, serviceVars>>

(***************************************************************************)
(* The environment: blocks and the maker.                                  *)
(***************************************************************************)
\* A block is mined: every transaction that is out gains a confirmation.
Mine ==
    /\ lock_conf >= 0
    /\ \/ lock_conf < CancelTimelock
       \/ cancel_conf >= 0 /\ cancel_conf < PunishTimelock
    /\ lock_conf' = Min(lock_conf + 1, CancelTimelock)
    /\ cancel_conf' = IF cancel_conf >= 0 THEN Min(cancel_conf + 1, PunishTimelock) ELSE cancel_conf
    /\ UNCHANGED <<redeemed, driverVars, makerVars>>
    /\ UNCHANGED <<watcherVars, serviceVars>>

\* The maker's Monero lock becomes visible to watch_for_transfer, with the
\* agreed amount or with less.
MakerLocksXmr ==
    /\ lock_conf >= 1
    /\ xmr_lock = "none"
    /\ xmr_lock' \in {"ok", "short"}
    /\ UNCHANGED <<proof_sent, encsig_rcvd, maker_up, driverVars, chainVars>>
    /\ UNCHANGED <<watcherVars, serviceVars>>

MakerSendsTransferProof ==
    /\ lock_conf >= 1
    /\ maker_up
    /\ ~proof_sent
    /\ proof_sent' = TRUE
    /\ UNCHANGED <<xmr_lock, encsig_rcvd, maker_up, driverVars, chainVars>>
    /\ UNCHANGED <<watcherVars, serviceVars>>

\* The maker redeems with the encrypted signature while no timelock has expired.
MakerRedeems ==
    /\ encsig_rcvd
    /\ ~redeemed
    /\ cancel_conf = -1
    /\ ExpiredTimelocks = "None"
    /\ redeemed' = TRUE
    /\ UNCHANGED <<lock_conf, cancel_conf, driverVars, makerVars>>
    /\ UNCHANGED <<watcherVars, serviceVars>>

\* The maker publishes the cancel transaction.
MakerCancels ==
    /\ CancelAccepted
    /\ cancel_conf' = 0
    /\ UNCHANGED <<lock_conf, redeemed, driverVars, makerVars>>
    /\ UNCHANGED <<watcherVars, serviceVars>>

MakerComesOrGoes ==
    /\ maker_up' = ~maker_up
    /\ UNCHANGED <<proof_sent, xmr_lock, encsig_rcvd, driverVars, chainVars>>
    /\ UNCHANGED <<watcherVars, serviceVars>>

Driver(F) ==
    \/ StepStarted(F)
    \/ StepExecutionSetupDone(F)
    \/ StepBtcLocked(F)
    \/ SelectBtcLocked(F)
    \/ StepXmrLockProofReceived(F)
    \/ SelectXmrLockProofReceived(F)
    \/ WaitCancelAfterTransferFailed(F)
    \/ StepXmrLocked(F)
    \/ SelectXmrLocked(F)
    \/ StepEncSigSent(F)
    \/ SelectEncSigSent(F)
    \/ StepBtcRedeemed(F)
    \/ StepCancelTimelockExpired(F)
    \/ StepBtcCancelled(F)
    \/ StepTerminal
    \/ ReturnTarget
    \/ Persist(F)

Environment ==
    \/ Mine
    \/ MakerLocksXmr
    \/ MakerSendsTransferProof
    \/ MakerRedeems
    \/ MakerCancels
    \/ MakerComesOrGoes

Next ==
    \/ Driver(TRUE)
    \/ Environment
    \/ Crash
    \/ Resume

Spec == Init /\ [][Next]_vars

\* The same system when no call fails on its own: dial still fails while the
\* maker is away, and the process may still die and be run again.
ReliableNext ==
    \/ Driver(FALSE)
    \/ Environment
    \/ Crash
    \/ Resume

ReliableSpec == Init /\ [][ReliableNext]_vars

(***************************************************************************)
(* Properties.                                                             *)
(***************************************************************************)
Last(seq) == seq[Len(seq)]

TagsOf(seq) == [i \in DOMAIN seq |-> seq[i].tag]

\* The driver took a step of its own (not a crash) out of the current position.
DriverMoved == (pc' # pc \/ persisted' # persisted) /\ result' # "crashed" /\ result = "running"

LockCalls == <<"dial", "lock_btc", "sign_and_finalize", "broadcast_lock">>

\* C1: the lock transaction is signed and broadcast only in the step of
\* ExecutionSetupDone, after execution_setup has succeeded and after the dial
\* of that step has succeeded; when that dial fails the run ends with an
\* error, nothing is signed or broadcast and the database still holds
\* ExecutionSetupDone.
C1_LockOnlyAfterSetupAndDial ==
    [][/\ (\/ effects'["broadcast_lock"] # effects["broadcast_lock"]
           \/ (acts' # acts /\ {"sign_and_finalize", "broadcast_lock"} \cap Range(acts') # {}))
          => /\ AtArm("ExecutionSetupDone")
             /\ setup_done
             /\ maker_up
             /\ \E n \in 3..4 : acts' = SubSeq(LockCalls, 1, n)
       /\ (AtArm("ExecutionSetupDone") /\ ~maker_up /\ DriverMoved)
          => /\ result' = "err"
             /\ acts' = <<>>
             /\ effects' = effects
             /\ lock_conf' = lock_conf
             /\ db' = db
             /\ db.tag = "ExecutionSetupDone"
      ]_vars

\* C1 witness: a run that began in Started has just broadcast the lock transaction.
C1_Witness ==
    /\ start.tag = "Started"
    /\ state.tag = "ExecutionSetupDone"
    /\ pc = "persist"
    /\ acts = LockCalls
    /\ effects["broadcast_lock"] = 1

\* The states in which the database shows that effect `e` has happened.
StoredAfter(e) ==
    CASE e = "broadcast_lock" -> Tags \ {"Started", "ExecutionSetupDone", "SafelyAborted"}
      [] e = "send_encrypted_signature" ->
            {"EncSigSent", "BtcRedeemed", "XmrRedeemed", "CancelTimelockExpired",
             "BtcCancelled", "BtcRefunded", "BtcPunished"}
      [] e = "sweep_all" -> {"XmrRedeemed"}
      [] e = "submit_tx_cancel" -> {"BtcCancelled", "BtcRefunded", "BtcPunished"}
      [] e = "refund_btc" -> {"BtcRefunded"}

\* C2: no effect of a transition (lock, cancel or refund broadcast, the
\* encrypted signature sent, XMR swept) is observable before the state the
\* transition leads to is stored: whenever an effect has happened, the
\* database holds a state that follows it.
C2_EffectsOnlyAfterPersist ==
    \A e \in Effects : effects[e] > 0 => db.tag \in StoredAfter(e)

\* C3: the taker never moves from XmrLockProofReceived to XmrLocked when the
\* cancel timelock has expired, the case that both branches of the select!
\* are ready included.
C3_NoXmrLockedAfterExpiry ==
    [][(state.tag = "XmrLockProofReceived" /\ new_state'.tag = "XmrLocked")
          => ~cancel_timelock_reached]_vars

\* C4: in the select! of BtcLocked and of XmrLocked the peer branch is taken
\* only when the cancel timelock has not expired; with both branches ready the
\* next state is CancelTimelockExpired.
C4_OnChainBranchWins ==
    [][(/\ state.tag \in {"BtcLocked", "XmrLocked"}
        /\ pc = "select"
        /\ pc' = "persist"
        /\ cancel_timelock_reached)
          => new_state'.tag = "CancelTimelockExpired"]_vars

\* The edges of the taker's state graph (spec.md section 3; the match of
\* run_until_internal).
Edge(a, b) ==
    \/ <<a, b>> \in {<<"Started", "ExecutionSetupDone">>,
                    <<"ExecutionSetupDone", "BtcLocked">>,
                    <<"BtcLocked", "XmrLockProofReceived">>,
                    <<"XmrLockProofReceived", "XmrLocked">>,
                    <<"XmrLocked", "EncSigSent">>,
                    <<"EncSigSent", "BtcRedeemed">>,
                    <<"BtcRedeemed", "XmrRedeemed">>,
                    <<"CancelTimelockExpired", "BtcCancelled">>,
                    <<"BtcCancelled", "BtcRefunded">>,
                    <<"BtcCancelled", "BtcPunished">>}
    \/ a \in {"BtcLocked", "XmrLockProofReceived", "XmrLocked", "EncSigSent"}
       /\ b = "CancelTimelockExpired"
    \/ a \in Complete /\ b = a

\* The states from which XmrRedeemed can be reached along the edges.
LeadsToXmrRedeemed ==
    {"Started", "ExecutionSetupDone", "BtcLocked", "XmrLockProofReceived", "XmrLocked",
     "EncSigSent", "BtcRedeemed", "XmrRedeemed"}

\* C5: whenever the maker's redeem transaction is on-chain, XmrRedeemed is
\* reachable from the taker's state: the state the driver holds and the state
\* the database holds are states with a path to XmrRedeemed.
C5_XmrRedeemedReachable ==
    redeemed => (state.tag \in LeadsToXmrRedeemed /\ db.tag \in LeadsToXmrRedeemed)

\* C6: every state the driver computes is stored before any action of that
\* state runs and before it is returned: while the run is at or past the top
\* of a step, the state it works on is the stored one and the last one
\* written; a write stores exactly the computed state as the next entry; a
\* failed write ends the run with an error before anything else happens.
C6_PersistBeforeAct ==
    /\ []((result \in {"running", "ok"}) =>
            /\ db = state
            /\ (persisted # <<>> => Last(persisted) = state))
    /\ [][/\ (state' # state /\ result' = "running" /\ result = "running")
             => (pc = "persist" /\ state' = new_state)
          /\ (persisted' # persisted)
             => (pc = "persist" /\ persisted' = Append(persisted, new_state) /\ db' = new_state)
          /\ (pc = "persist" /\ DriverMoved /\ persisted' = persisted)
             => /\ result' = "err"
                /\ state' = state
                /\ db' = db
                /\ effects' = effects
                /\ acts' = acts
         ]_vars

\* C6 witness: a state computed in this run is stored and its arm is running.
C6_Witness ==
    /\ result = "running"
    /\ pc = "select"
    /\ Len(persisted) >= 2
    /\ Last(persisted) = state
    /\ db = state

\* C7: the stored states follow only the edges of the state graph, from the
\* start state on, however the run ends.
C7_PersistedFollowsEdges ==
    \A i \in DOMAIN persisted :
        Edge(IF i = 1 THEN start.tag ELSE persisted[i - 1].tag, persisted[i].tag)

\* C7 witness: a swap stored both ends of the graph in one history, from
\* Started through the cancel branch to a terminal state.
C7_Witness ==
    /\ start.tag = "Started"
    /\ Len(persisted) >= 6
    /\ Last(persisted).tag = "BtcRefunded"
    /\ result = "ok"

\* C8: the arm of a terminal state yields the same state with the same
\* payload and calls nothing; run (the target is is_complete) returns a
\* terminal state at once, without a transition.
C8_TerminalFixedPoint ==
    [][/\ (is_complete(state) /\ pc = "top" /\ DriverMoved)
          => /\ effects' = effects
             /\ acts' = <<>>
             /\ <<chainVars, makerVars>>' = <<chainVars, makerVars>>
             /\ db' = db
             /\ \/ pc' = "persist" /\ new_state' = state
                \/ pc' = "done" /\ result' = "ok" /\ state' = state
       /\ (is_complete(state) /\ pc = "top" /\ DriverMoved /\ target = Complete)
          => (result' = "ok" /\ state' = state /\ persisted' = persisted)
      ]_vars

\* C8 witness: the arm of a terminal state has run (the target was another state).
C8_Witness ==
    /\ is_complete(state)
    /\ state.tx_lock_id # NoTx
    /\ pc = "persist"
    /\ new_state = state
    /\ acts = <<>>

\* C9: once watch_for_transfer has failed in XmrLockProofReceived, the taker
\* never computes XmrLocked; the only state it computes is
\* CancelTimelockExpired, and only when the cancel timelock has expired.  While
\* the Monero lock is short, no step computes XmrLocked at all.
C9_TransferFailedRoutesToCancel ==
    [][/\ (xmr_lock = "short") => new_state'.tag # "XmrLocked"
       /\ (AtSelect("XmrLockProofReceived") /\ pc' = "wait_cancel")
          => (state' = state /\ new_state' = NoState /\ result' = "running")
       /\ (pc = "wait_cancel" /\ DriverMoved)
          => /\ state' = state
             /\ \/ result' = "err" /\ new_state' = NoState
                \/ /\ pc' = "persist"
                   /\ new_state' = cancel(state)
                   /\ cancel_timelock_reached
      ]_vars

\* C9 witness: watch_for_transfer failed while the timelock had not expired,
\* and the taker has waited for the expiry and computed CancelTimelockExpired.
C9_Witness ==
    /\ state.tag = "XmrLockProofReceived"
    /\ pc = "persist"
    /\ new_state.tag = "CancelTimelockExpired"
    /\ acts = <<"current_epoch", "dial", "warn_insufficient_monero",
                "wait_for_cancel_timelock_to_expire">>
    /\ xmr_lock = "short"

(***************************************************************************)
(* The cancel scenario: the run starts in BtcLocked with run (is_complete  *)
(* as the target); the maker stays reachable and never sends the transfer  *)
(* proof; no call fails on its own and the process does not crash; blocks  *)
(* keep being mined.  The maker may lock Monero and may publish the cancel *)
(* transaction itself.                                                     *)
(***************************************************************************)
CancelInit ==
    /\ Init
    /\ start.tag = "BtcLocked"
    /\ target = Complete
    /\ maker_up

CancelDriver ==
    \/ StepBtcLocked(FALSE)
    \/ SelectBtcLocked(FALSE)
    \/ StepCancelTimelockExpired(FALSE)
    \/ StepBtcCancelled(FALSE)
    \/ ReturnTarget
    \/ Persist(FALSE)

CancelNext ==
    \/ CancelDriver
    \/ Mine
    \/ MakerLocksXmr
    \/ MakerCancels

\* The runtime polls a task whose future is ready, and blocks keep coming.
CancelSpec == CancelInit /\ [][CancelNext]_vars /\ WF_vars(CancelDriver) /\ WF_vars(Mine)

\* C10 as stated: the run of the cancel scenario ends in BtcRefunded.
C10_EndsInBtcRefunded ==
    result = "ok" => state.tag = "BtcRefunded"

\* C10, amended: the run of the cancel scenario ends, in BtcRefunded after
\* publishing the refund or, when the punish timelock has expired as well by
\* the time the BtcCancelled arm reads the timelocks, in BtcPunished without
\* a refund; it stored exactly CancelTimelockExpired, BtcCancelled and that
\* final state, in that order, and none of them before the cancel timelock
\* had expired.
C10_CancelPathEnds ==
    /\ <>(result = "ok")
    /\ [](result = "ok" =>
            /\ state.tag \in {"BtcRefunded", "BtcPunished"}
            /\ TagsOf(persisted) = <<"CancelTimelockExpired", "BtcCancelled", state.tag>>
            /\ state.tag = "BtcRefunded" => effects["refund_btc"] = 1
            /\ state.tag = "BtcPunished" =>
                  (ExpiredTimelocks = "Punish" /\ effects["refund_btc"] = 0))
    /\ [][persisted' # persisted => cancel_timelock_reached]_vars

\* C10 witness: the run ended in BtcRefunded over the three stored states,
\* after the select! had waited for the timelock.
C10_Witness ==
    /\ result = "ok"
    /\ state.tag = "BtcRefunded"
    /\ TagsOf(persisted) = <<"CancelTimelockExpired", "BtcCancelled", "BtcRefunded">>
    /\ effects["refund_btc"] = 1
    /\ effects["submit_tx_cancel"] = 1

(***************************************************************************)
(* The happy path (tests/happy_path.rs): the run starts in Started with    *)
(* run (is_complete as the target); the maker stays reachable, locks the   *)
(* agreed Monero amount, sends the transfer proof and redeems; no call     *)
(* fails on its own and the process does not crash; the lock transaction   *)
(* does not reach cancel_timelock confirmations before the maker's redeem  *)
(* transaction is on-chain.                                                *)
(***************************************************************************)
HappyInit ==
    /\ Init
    /\ start.tag = "Started"
    /\ target = Complete
    /\ maker_up

\* Blocks, none of which expires the cancel timelock before the redeem.
HappyMine ==
    /\ redeemed \/ lock_conf + 1 < CancelTimelock
    /\ Mine

\* The maker locks the agreed amount.
HappyMakerLocksXmr ==
    /\ MakerLocksXmr
    /\ xmr_lock' = "ok"

\* alice::run has returned BtcRedeemed: the maker's swap is over and the
\* taker can no longer reach it for this swap.
MakerFinishes ==
    /\ redeemed
    /\ maker_up
    /\ maker_up' = FALSE
    /\ UNCHANGED <<proof_sent, xmr_lock, encsig_rcvd, driverVars, chainVars>>
    /\ UNCHANGED <<watcherVars, serviceVars>>

HappyDriver ==
    \/ StepStarted(FALSE)
    \/ StepExecutionSetupDone(FALSE)
    \/ StepBtcLocked(FALSE)
    \/ SelectBtcLocked(FALSE)
    \/ StepXmrLockProofReceived(FALSE)
    \/ SelectXmrLockProofReceived(FALSE)
    \/ StepXmrLocked(FALSE)
    \/ SelectXmrLocked(FALSE)
    \/ StepEncSigSent(FALSE)
    \/ SelectEncSigSent(FALSE)
    \/ StepBtcRedeemed(FALSE)
    \/ StepCancelTimelockExpired(FALSE)
    \/ ReturnTarget
    \/ Persist(FALSE)

HappyNext ==
    \/ HappyDriver
    \/ HappyMine
    \/ HappyMakerLocksXmr
    \/ MakerSendsTransferProof
    \/ MakerRedeems
    \/ MakerFinishes

HappySpec == HappyInit /\ [][HappyNext]_vars

\* C11: on the happy path the run never ends with an error and never leaves
\* the path to XmrRedeemed: it ends only in XmrRedeemed, the taker never
\* computes or stores a state of the cancel branch, and it never broadcasts
\* the cancel or the refund transaction.
C11_HappyPathEndsInXmrRedeemed ==
    /\ result \in {"running", "ok"}
    /\ result = "ok" => state.tag = "XmrRedeemed"
    /\ state.tag \in LeadsToXmrRedeemed
    /\ new_state.tag \in LeadsToXmrRedeemed \cup {"None"}
    /\ effects["submit_tx_cancel"] = 0
    /\ effects["refund_btc"] = 0

(***************************************************************************)
(* A swap the database holds as BtcCancelled is run again.  What           *)
(* expired_timelock reads is what the chain server reports at that moment, *)
(* which may be behind what an earlier run saw (another server, a server   *)
(* that is still syncing, a reorganisation): any status of the lock and of *)
(* the cancel transaction.  Calls may fail and the process may die.        *)
(***************************************************************************)
CancelledInit ==
    /\ start \in {BobState("BtcCancelled", i) : i \in TxIds}
    /\ state = start
    /\ db = start
    /\ target \in Targets
    /\ new_state = NoState
    /\ pc = "top"
    /\ result = "running"
    /\ acts = <<>>
    /\ persisted = <<>>
    /\ runs = 1
    /\ setup_done = TRUE
    /\ effects = EffectsBehind("BtcCancelled")
    /\ lock_conf \in 0..CancelTimelock
    /\ cancel_conf \in -1..PunishTimelock
    /\ redeemed = FALSE
    /\ proof_sent = FALSE
    /\ xmr_lock = "none"
    /\ encsig_rcvd = FALSE
    /\ maker_up \in BOOLEAN
    /\ WatcherIdle
    /\ ServicesIdle

CancelledNext ==
    \/ StepBtcCancelled(TRUE)
    \/ StepTerminal
    \/ ReturnTarget
    \/ Persist(TRUE)
    \/ Mine
    \/ Crash
    \/ Resume

CancelledSpec == CancelledInit /\ [][CancelledNext]_vars

\* C12: the step of BtcCancelled is fixed by the timelock status it reads.
\* Cancel: the step that completes has published the refund transaction and
\* computed BtcRefunded.  Punish: it has computed BtcPunished and published
\* nothing.  None: the run ends with an error.  A step that ends with an
\* error (None, or a call that failed) computes no state and leaves
\* BtcCancelled stored; with None nothing is published either.
C12_BtcCancelledByTimelockStatus ==
    [][(AtArm("BtcCancelled") /\ DriverMoved) =>
          /\ ExpiredTimelocks = "Cancel" /\ result' = "running" =>
                /\ new_state' = BobState("BtcRefunded", state.tx_lock_id)
                /\ acts' = <<"expired_timelock", "refund_btc">>
                /\ effects' = [effects EXCEPT !["refund_btc"] = @ + 1]
          /\ ExpiredTimelocks = "Punish" /\ result' = "running" =>
                /\ new_state' = BobState("BtcPunished", state.tx_lock_id)
                /\ acts' = <<"expired_timelock">>
                /\ effects' = effects
          /\ ExpiredTimelocks = "None" =>
                /\ result' = "err"
                /\ effects' = effects
                /\ "refund_btc" \notin Range(acts')
          /\ result' = "running" => pc' = "persist"
          /\ result' = "err" =>
                /\ new_state' = NoState
                /\ persisted' = persisted
                /\ db' = db
                /\ db.tag = "BtcCancelled"
          /\ <<lock_conf, cancel_conf>>' = <<lock_conf, cancel_conf>>
      ]_vars

\* C12 witness: the arm read the status None and the run ended with the
\* internal error, BtcCancelled still stored.
C12_Witness ==
    /\ result = "err"
    /\ state.tag = "BtcCancelled"
    /\ db.tag = "BtcCancelled"
    /\ acts = <<"expired_timelock">>
    /\ ExpiredTimelocks = "None"
    /\ effects["refund_btc"] = 0

\* C13: when sign_and_finalize fails in the step of ExecutionSetupDone (dial
\* and lock_btc are behind it, nothing has been broadcast), the step computes
\* SafelyAborted and goes on to store it.
C13_SignFailureSafelyAborts ==
    [][(AtArm("ExecutionSetupDone") /\ DriverMoved /\ acts' = <<"dial", "lock_btc">>)
          => /\ result' = "running"
             /\ pc' = "persist"
             /\ new_state' = BobState("SafelyAborted", NoTx)
      ]_vars

\* C14: no outcome of the select! of BtcLocked ends the run with an error: a
\* failed recv_transfer_proof leaves the run going in BtcLocked, where the
\* receive is raced against the cancel timelock again.
C14_RecvFailureRetried ==
    [][(AtSelect("BtcLocked") /\ DriverMoved)
          => /\ result' = "running"
             /\ (new_state' = NoState => state' = state)
      ]_vars

\* The transactions the taker broadcasts.
OnChainActions == {"broadcast_lock", "submit_tx_cancel", "refund_btc"}

\* C15: whenever a step broadcasts the lock, the cancel or the refund
\* transaction, a dial of the maker completed earlier in the same step.
C15_DialBeforeOnChainAction ==
    [][\A e \in OnChainActions :
          effects'[e] > effects[e]
             => /\ IndexOf(acts', "dial") # 0
                /\ IndexOf(acts', "dial") < IndexOf(acts', e)
      ]_vars

(***************************************************************************)
(* bitcoin/wallet.rs, Client: status_of_script with the refresh it does    *)
(* through drain_notifications, against an Electrum server that gets new   *)
(* blocks and new history rows while the clock runs.  One call is one      *)
(* action; `fault` is the server error that occurs during the call.        *)
(***************************************************************************)
\* impl Watchable for (Txid, Script): the transactions the wallet watches
Watchables == {<<1, "lock">>, <<2, "cancel">>}

\* The ways the Electrum server can fail during one call: the ping, a
\* block_headers_pop that is followed by a successful one, the last
\* block_headers_pop, batch_script_get_history, and a batch of the wrong size.
Faults == {"none", "ping", "pop_mid", "pop_last", "history", "history_len"}

\* Variant of the filter that takes the first matching row.
history_status_first_row(rows, txid, latest) ==
    LET history_of_tx == SelectSeq(rows, LAMBDA entry : entry.tx_hash = txid) IN
    IF history_of_tx = <<>>
    THEN Unseen
    ELSE IF history_of_tx[1].height <= 0
         THEN InMempool
         ELSE ScriptStatus_Confirmed(
                  from_inclusion_and_latest_block(history_of_tx[1].height, latest))

\* wallet.rs:380-405: the status of txid from the cached rows of its script
history_status(rows, txid, latest) ==
    LET history_of_tx == SelectSeq(rows, LAMBDA entry : entry.tx_hash = txid) IN
    IF history_of_tx = <<>>
    THEN Unseen
    ELSE LET last == history_of_tx[Len(history_of_tx)] IN
         IF last.height <= 0
         THEN InMempool
         ELSE ScriptStatus_Confirmed(from_inclusion_and_latest_block(last.height, latest))

\* wallet.rs:374-376: the script of the call becomes a key of script_history
with_key(script) ==
    [script_history EXCEPT ![script] = IF @.key THEN @ ELSE [key |-> TRUE, rows |-> <<>>]]

\* wallet.rs:335-352 ping: the server is pinged only when more than
\* `interval` has passed since last_ping
ping_due == now - last_ping > Interval

\* wallet.rs:408-423: the height of the last notification popped, or the
\* block the client already knew
drained_latest_block ==
    IF electrum.headers = <<>> THEN latest_block ELSE electrum.headers[Len(electrum.headers)]

\* wallet.rs:425-445: every key gets the history the server holds for it
fetched_histories(script) ==
    [s \in Scripts |->
        IF with_key(script)[s].key
        THEN [key |-> TRUE, rows |-> electrum.history[s]]
        ELSE with_key(script)[s]]

\* The server error `fault` can occur in a call made now.
CanOccur(fault) ==
    \/ fault = "none"
    \/ fault \in {"ping", "pop_last", "history", "history_len"} /\ ping_due
    \/ fault = "pop_mid" /\ ping_due /\ electrum.headers # <<>>

\* A call has returned `out`.
Returned(w, fault, out) ==
    ret' = [seq |-> 1 - ret.seq, tx |-> w[1], script |-> w[2],
            faults |-> IF fault = "none" THEN {} ELSE {fault}, out |-> out]

\* wallet.rs:367-406 Client::status_of_script, with drain_notifications
\* (354-365), ping, drain_blockheight_notifications and update_script_histories
status_of_script(w, fault) ==
    /\ CanOccur(fault)
    /\ IF ~ping_due \/ fault = "ping"
       THEN \* not pinged: drain_notifications returns Ok(()) at once
            /\ script_history' = with_key(w[2])
            /\ Returned(w, fault, history_status(with_key(w[2])[w[2]].rows, w[1], latest_block))
            /\ UNCHANGED <<last_ping, latest_block, electrum>>
       ELSE /\ last_ping' = now
            /\ electrum' = [electrum EXCEPT !.headers = <<>>]
            /\ IF fault = "pop_last"
               THEN /\ latest_block' = latest_block
                    /\ script_history' = with_key(w[2])
                    /\ Returned(w, fault, Err)
               ELSE /\ latest_block' = drained_latest_block
                    /\ IF fault \in {"history", "history_len"}
                       THEN /\ script_history' = with_key(w[2])
                            /\ Returned(w, fault, Err)
                       ELSE /\ script_history' = fetched_histories(w[2])
                            /\ Returned(w, fault,
                                        history_status(electrum.history[w[2]], w[1],
                                                       drained_latest_block))
    /\ UNCHANGED now

\* A call of Client::status_of_script made on its own.
StatusOfScript(w, fault) ==
    /\ status_of_script(w, fault)
    /\ UNCHANGED <<calc, driverVars, chainVars, makerVars, serviceVars>>

othersIdle == <<calc, driverVars, chainVars, makerVars, serviceVars>>

\* Time passes.
Tick ==
    /\ now < MaxTime
    /\ now' = now + 1
    /\ UNCHANGED <<last_ping, latest_block, script_history, electrum, ret, othersIdle>>

\* The server learns of a new block and queues the notification for it.
NewBlock ==
    /\ electrum.tip < MaxTip
    /\ electrum' = [electrum EXCEPT !.tip = @ + 1, !.headers = Append(@, electrum.tip + 1)]
    /\ UNCHANGED <<now, last_ping, latest_block, script_history, ret, othersIdle>>

\* A watched transaction enters the server's mempool: a row at height 0.
ServerSeesTx(w) ==
    /\ Len(electrum.history[w[2]]) < MaxRows
    /\ \A i \in DOMAIN electrum.history[w[2]] : electrum.history[w[2]][i].tx_hash # w[1]
    /\ electrum' = [electrum EXCEPT !.history[w[2]] = Append(@, Row(w[1], 0))]
    /\ UNCHANGED <<now, last_ping, latest_block, script_history, ret, othersIdle>>

\* The newest block includes a transaction of the mempool.
ServerConfirmsTx(w) ==
    /\ electrum.tip >= 1
    /\ \E i \in DOMAIN electrum.history[w[2]] :
          /\ electrum.history[w[2]][i] = Row(w[1], 0)
          /\ electrum' = [electrum EXCEPT !.history[w[2]][i] = Row(w[1], electrum.tip)]
    /\ UNCHANGED <<now, last_ping, latest_block, script_history, ret, othersIdle>>

\* No swap is running: a new one waits in Started.
NoSwap ==
    /\ SwapInit
    /\ start.tag = "Started"
    /\ target = Complete
    /\ maker_up

WatcherInit ==
    /\ NoSwap
    /\ WatcherIdle
    /\ ServicesIdle

WatcherNext ==
    \/ \E w \in Watchables, fault \in Faults : StatusOfScript(w, fault)
    \/ Tick
    \/ NewBlock
    \/ \E w \in Watchables : ServerSeesTx(w)
    \/ \E w \in Watchables : ServerConfirmsTx(w)

WatcherSpec == WatcherInit /\ [][WatcherNext]_vars

\* A call of status_of_script has just returned.
Called == ret'.seq # ret.seq

\* C16: a call of status_of_script during which no server error occurs
\* refreshes exactly when now - last_ping >= interval.  It then empties the
\* queue of header notifications, sets latest_block to the newest of them
\* (leaves it when there is none) and gives every key of script_history, the
\* script of the call included, the history the server holds; otherwise it
\* leaves latest_block, the queue and the rows of every key as they were.  In
\* both cases the status returned is the one of the rows it then holds.
C16_RefreshWhenIntervalElapsed ==
    [][(Called /\ ret'.faults = {}) =>
          /\ (now - last_ping >= Interval) =>
                /\ electrum'.headers = <<>>
                /\ latest_block' = IF electrum.headers = <<>> THEN latest_block
                                   ELSE electrum.headers[Len(electrum.headers)]
                /\ \A s \in Scripts :
                      (script_history[s].key \/ s = ret'.script)
                         => script_history'[s] = [key |-> TRUE, rows |-> electrum.history[s]]
          /\ (now - last_ping < Interval) =>
                /\ electrum' = electrum
                /\ latest_block' = latest_block
                /\ \A s \in Scripts :
                      script_history[s].key => script_history'[s] = script_history[s]
          /\ script_history'[ret'.script].key
          /\ ret'.out = history_status(script_history'[ret'.script].rows, ret'.tx, latest_block')
      ]_vars

\* C17: a call of status_of_script during which a server error occurs (the
\* ping, a header-notification pop, the batch history fetch or its size)
\* returns an error, never a status.
C17_ServerErrorsSurface ==
    [][(Called /\ ret'.faults # {}) => ret'.out = Err]_vars

(***************************************************************************)
(* status_of_script over arbitrary histories: the server holds any rows    *)
(* for the lock script (any of the transactions, unconfirmed at height 0   *)
(* or -1 or included in any block, in any order) and is at the last block  *)
(* or the one before it; the client asks for either transaction on that    *)
(* script while the clock runs.                                            *)
(***************************************************************************)
AnyRows == {Row(t, h) : t \in TxIds, h \in -1..MaxTip}

AnyHistories == UNION {[1..n -> AnyRows] : n \in 0..(MaxRows + 1)}

FilterInit ==
    /\ NoSwap
    /\ ServicesIdle
    /\ now = 0
    /\ last_ping = 0
    /\ latest_block = 0
    /\ script_history = [s \in Scripts |-> [key |-> FALSE, rows |-> <<>>]]
    /\ \E t \in {MaxTip - 1, MaxTip}, h \in AnyHistories :
          electrum = [tip |-> t,
                      headers |-> <<t>>,
                      history |-> [s \in Scripts |-> IF s = "lock" THEN h ELSE <<>>]]
    /\ ret = NoRet
    /\ calc = NoCalc

FilterNext ==
    \/ \E tx \in TxIds : StatusOfScript(<<tx, "lock">>, "none")
    \/ Tick

FilterSpec == FilterInit /\ [][FilterNext]_vars

\* The rows of the script of the last call that are rows of its transaction.
MatchingRows(rows, tx) == {i \in DOMAIN rows : rows[i].tx_hash = tx}

Max(S) == CHOOSE x \in S : \A y \in S : y <= x

\* C18: the status a call returns is fixed by the rows of tx.script() whose
\* tx_hash is tx.id(), as the cache holds them when the call reads it: Unseen
\* (not seen) iff there is none; otherwise seen, and by the last of them
\* alone InMempool if its height is <= 0, else Confirmed with the depth
\* max(0, latest_block - height).
C18_StatusFromLastMatchingRow ==
    [][(Called /\ ret'.out # Err) =>
          LET rows == script_history'[ret'.script].rows
              idx == MatchingRows(rows, ret'.tx)
          IN /\ (ret'.out = Unseen) <=> (idx = {})
             /\ has_been_seen(ret'.out) <=> (idx # {})
             /\ idx # {} =>
                   LET last == rows[Max(idx)] IN
                   ret'.out = IF last.height <= 0
                              THEN InMempool
                              ELSE [kind |-> "Confirmed",
                                    depth |-> IF latest_block' >= last.height
                                              THEN latest_block' - last.height ELSE 0]
      ]_vars

\* C18 witness: a call returned Confirmed from the last of two matching rows
\* of different heights, with a row of another transaction behind them.
C18_Witness ==
    /\ ret.out.kind = "Confirmed"
    /\ LET rows == script_history[ret.script].rows IN
       /\ Len(rows) = 3
       /\ rows[1].tx_hash = ret.tx
       /\ rows[1].height <= 0
       /\ rows[2].tx_hash = ret.tx
       /\ rows[2].height > 0
       /\ rows[3].tx_hash # ret.tx

(***************************************************************************)
(* The functions of ScriptStatus and Confirmed (wallet.rs:455-521) applied *)
(* to every pair of u32 values a, b.  `checked` says whether the build     *)
(* checks arithmetic overflow (it then panics) or lets it wrap around.     *)
(***************************************************************************)
ApplyInit ==
    /\ NoSwap
    /\ NewClient
    /\ ServicesIdle
    /\ \E a \in U32, b \in U32 : calc = [NoCalc EXCEPT !.a = a, !.b = b]

clientIdle == <<now, last_ping, latest_block, script_history, electrum, ret>>

\* The statuses whose depth, where they have one, is calc.a.
StatusesOf(a) == {Unseen, InMempool, ScriptStatus_Confirmed(Confirmed_new(a))}

\* Confirmed::from_inclusion_and_latest_block(a, b)
ApplyFromInclusion ==
    /\ calc.fn = "none"
    /\ calc' = [calc EXCEPT !.fn = "from_inclusion_and_latest_block",
                            !.num = from_inclusion_and_latest_block(calc.a, calc.b).depth]
    /\ UNCHANGED <<clientIdle, driverVars, chainVars, makerVars, serviceVars>>

\* Confirmed::new(a).confirmations()
ApplyConfirmations ==
    /\ calc.fn = "none"
    /\ \E checked \in BOOLEAN :
          calc' = IF add_overflows(calc.a, 1) /\ checked
                  THEN [calc EXCEPT !.fn = "confirmations", !.panicked = TRUE]
                  ELSE [calc EXCEPT !.fn = "confirmations",
                                    !.num = confirmations(Confirmed_new(calc.a))]
    /\ UNCHANGED <<clientIdle, driverVars, chainVars, makerVars, serviceVars>>

\* status.is_confirmed_with(b), for the statuses of depth a
ApplyIsConfirmedWith ==
    /\ calc.fn = "none"
    /\ \E checked \in BOOLEAN, status \in StatusesOf(calc.a) :
          calc' = IF status.kind = "Confirmed" /\ add_overflows(calc.a, 1) /\ checked
                  THEN [calc EXCEPT !.fn = "is_confirmed_with", !.status = status,
                                    !.panicked = TRUE]
                  ELSE [calc EXCEPT !.fn = "is_confirmed_with", !.status = status,
                                    !.bool = is_confirmed_with(status, calc.b)]
    /\ UNCHANGED <<clientIdle, driverVars, chainVars, makerVars, serviceVars>>

\* ScriptStatus::from_confirmations(a), and is_confirmed_with(a) of the result
ApplyFromConfirmations ==
    /\ calc.fn = "none"
    /\ calc' = [calc EXCEPT !.fn = "from_confirmations",
                            !.status = from_confirmations(calc.a),
                            !.bool = is_confirmed_with(from_confirmations(calc.a), calc.a)]
    /\ UNCHANGED <<clientIdle, driverVars, chainVars, makerVars, serviceVars>>

ApplyNext ==
    \/ ApplyFromInclusion
    \/ ApplyConfirmations
    \/ ApplyIsConfirmedWith
    \/ ApplyFromConfirmations

ApplySpec == ApplyInit /\ [][ApplyNext]_vars

\* C19: from_inclusion_and_latest_block(h, H).depth is max(0, H - h) for all
\* u32 h and H: 0 whenever h > H, never more than H, never a wrapped value.
C19_DepthSaturates ==
    calc.fn = "from_inclusion_and_latest_block" =>
        /\ calc.num = (IF calc.b - calc.a > 0 THEN calc.b - calc.a ELSE 0)
        /\ (calc.a > calc.b => calc.num = 0)
        /\ calc.num \in 0..calc.b

\* C19 witness: the inclusion height is one above the latest block, as in the
\* test given_inclusion_after_lastest_known_block_at_least_depth_0.
C19_Witness ==
    /\ calc.fn = "from_inclusion_and_latest_block"
    /\ calc.a = calc.b + 1
    /\ calc.num = 0

\* C20: for every u32 depth d and target T, confirmations() is d + 1 and
\* Confirmed(d) meets T iff d + 1 >= T; Unseen and InMempool meet no target;
\* from_confirmations(0) is InMempool, from_confirmations(n) for n >= 1 is
\* Confirmed with depth n - 1 and meets the target n.
C20_ConfirmationsIsDepthPlusOne ==
    /\ calc.fn = "confirmations" => (~calc.panicked /\ calc.num = calc.a + 1)
    /\ calc.fn = "is_confirmed_with" =>
          /\ ~calc.panicked
          /\ calc.bool = (calc.status.kind = "Confirmed" /\ calc.a + 1 >= calc.b)
    /\ calc.fn = "from_confirmations" =>
          /\ calc.status = IF calc.a = 0 THEN InMempool
                           ELSE [kind |-> "Confirmed", depth |-> calc.a - 1]
          /\ calc.a >= 1 => calc.bool

MoneroCalls == <<"claim_xmr", "refresh", "sweep_all">>

\* C25: the step of BtcRedeemed calls claim_xmr, refresh and sweep_all in
\* that order.  It computes XmrRedeemed only with all three done; when one of
\* them fails the run ends with an error after the calls before it, nothing
\* is stored and the database keeps BtcRedeemed.  XmrRedeemed is stored only
\* from such a step, after sweep_all.
C25_ClaimRefreshSweepThenXmrRedeemed ==
    [][/\ (AtArm("BtcRedeemed") /\ DriverMoved) =>
             \/ /\ result' = "running"
                /\ pc' = "persist"
                /\ new_state' = BobState("XmrRedeemed", state.tx_lock_id)
                /\ acts' = MoneroCalls
                /\ effects'["sweep_all"] = effects["sweep_all"] + 1
             \/ /\ result' = "err"
                /\ \E n \in 0..2 : acts' = SubSeq(MoneroCalls, 1, n)
                /\ effects'["sweep_all"] = effects["sweep_all"]
                /\ persisted' = persisted
                /\ db' = db
                /\ db.tag = "BtcRedeemed"
       /\ (persisted' # persisted /\ state.tag = "BtcRedeemed")
             => /\ Last(persisted').tag = "XmrRedeemed"
                /\ acts = MoneroCalls
       /\ (persisted' # persisted /\ Last(persisted').tag = "XmrRedeemed" /\ ~is_complete(state))
             => (state.tag = "BtcRedeemed" /\ acts = MoneroCalls)
      ]_vars

\* C25 witness: sweep_all failed after claim_xmr and refresh; the run ended
\* with an error and BtcRedeemed is still stored.
C25_Witness ==
    /\ result = "err"
    /\ state.tag = "BtcRedeemed"
    /\ acts = <<"claim_xmr", "refresh">>
    /\ db.tag = "BtcRedeemed"
    /\ effects["sweep_all"] = 0

(***************************************************************************)
(* The offline-maker scenario: the run starts in BtcLocked with run        *)
(* (is_complete as the target); the maker cannot be dialed and sends       *)
(* nothing; no chain call fails and the process does not crash; blocks are *)
(* mined.  What reaches the chains without the network (the maker's Monero *)
(* lock, the maker's cancel transaction) may still appear, and the user    *)
(* may run the swap again after a run that ended with an error.            *)
(***************************************************************************)
OfflineInit ==
    /\ Init
    /\ start.tag = "BtcLocked"
    /\ target = Complete
    /\ ~maker_up

OfflineDriver ==
    \/ StepBtcLocked(FALSE)
    \/ StepCancelTimelockExpired(FALSE)
    \/ StepBtcCancelled(FALSE)
    \/ ReturnTarget
    \/ Persist(FALSE)

OfflineNext ==
    \/ OfflineDriver
    \/ Mine
    \/ MakerLocksXmr
    \/ MakerCancels
    \/ Resume

OfflineSpec == OfflineInit /\ [][OfflineNext]_vars

\* C26: with the maker unreachable and silent from BtcLocked on, the run does
\* not end with an error (it goes on to the refund).
C26_NoErrorWithoutMaker ==
    result # "err"

\* C27: a step computes CancelTimelockExpired from another state only when
\* the cancel timelock has expired on chain (status Cancel or Punish), also
\* when the cancel-timelock watcher of a race fails.
C27_CancelTimelockExpiredOnlyWhenExpired ==
    [][(new_state'.tag = "CancelTimelockExpired" /\ new_state' # new_state
            /\ state.tag # "CancelTimelockExpired")
          => ExpiredTimelocks \in {"Cancel", "Punish"}]_vars

\* C28: the step of XmrLocked computes EncSigSent only with
\* send_encrypted_signature completed successfully.
C28_EncSigSentOnlyAfterSend ==
    [][(state.tag = "XmrLocked" /\ new_state'.tag = "EncSigSent" /\ new_state' # new_state)
          => /\ "send_encrypted_signature" \in Range(acts')
             /\ effects'["send_encrypted_signature"] = effects["send_encrypted_signature"] + 1]_vars

\* C29: the driver never steps from a terminal state (it returns there,
\* whatever the target), and no terminal state is stored twice.
C29_ReturnsAtTerminalState ==
    /\ (pc = "persist" /\ result = "running") => ~is_complete(state)
    /\ \A i, j \in DOMAIN persisted :
          (i < j /\ is_complete(persisted[i])) => persisted[i] # persisted[j]

(***************************************************************************)
(* bitcoin/wallet.rs, Wallet: broadcast, wait_for_transaction_finality and *)
(* watch_until_status.  `watch` is one future of watch_until_status: it    *)
(* polls Client::status_of_script (one poll is one action, with the server *)
(* error that occurs during it) and sleeps between polls while the clock   *)
(* runs and the server gets blocks and transactions.                       *)
(***************************************************************************)
\* wallet.rs:242 tokio::time::sleep(Duration::from_secs(5)), in clock ticks
PollSleep == 1

\* Wallet::finality_confirmations (wallet.rs:28, :64)
ConfTargets == 0..(MaxTip + 1)

\* Variant of the closure that accepts every confirmed status.
finality_status_fn_any_confirmation(status, conf_target) ==
    status.kind = "Confirmed"

\* wallet.rs:259-272: the closure wait_for_transaction_finality passes
finality_status_fn(status, conf_target) ==
    IF status.kind = "Confirmed"
    THEN meets_target(Confirmed_new(status.depth), conf_target)
    ELSE FALSE

\* The predicates watch_until_status is called with directly, each with
\* the confirmation target it closes over.
StatusFns ==
    {<<"has_been_seen", 0>>} \cup {<<"is_confirmed_with", t>> : t \in ConfTargets}

\* status_fn(new_status) of wallet.rs:238
status_fn(fn, conf_target, status) ==
    CASE fn = "has_been_seen" -> has_been_seen(status)
      [] fn = "is_confirmed_with" -> is_confirmed_with(status, conf_target)
      [] fn = "finality" -> finality_status_fn(status, conf_target)

\* wallet.rs:260-265: seen_confirmations after the closure saw `status`
seen_after(seen, status) ==
    IF status.kind = "Confirmed" /\ confirmations(Confirmed_new(status.depth)) > seen
    THEN confirmations(Confirmed_new(status.depth))
    ELSE seen

\* Variant of the loop body that logs the status at every poll.
poll_logging_every_status(w, out, t) ==
    IF out = Err
    THEN [w EXCEPT !.polls = @ + 1, !.pc = "done", !.out = "err"]
    ELSE [w EXCEPT !.polls = @ + 1,
                   !.logs = @ + 1,
                   !.last_status = out,
                   !.evals = @ + 1,
                   !.seen_confirmations = IF w.fn = "finality" THEN seen_after(@, out) ELSE @,
                   !.pc = IF status_fn(w.fn, w.conf_target, out) THEN "done" ELSE "sleep",
                   !.out = IF status_fn(w.fn, w.conf_target, out) THEN "ok" ELSE "none",
                   !.wake = IF status_fn(w.fn, w.conf_target, out) THEN @ ELSE t + PollSleep]

\* wallet.rs:226-243: one turn of the loop of watch_until_status, for the
\* future `w`, the result `out` of status_of_script and the time `t`
poll(w, out, t) ==
    IF out = Err
    THEN [w EXCEPT !.polls = @ + 1, !.pc = "done", !.out = "err"]
    ELSE [w EXCEPT !.polls = @ + 1,
                   !.logs = IF out # w.last_status THEN @ + 1 ELSE @,
                   !.last_status = out,
                   !.evals = @ + 1,
                   !.seen_confirmations = IF w.fn = "finality" THEN seen_after(@, out) ELSE @,
                   !.pc = IF status_fn(w.fn, w.conf_target, out) THEN "done" ELSE "sleep",
                   !.out = IF status_fn(w.fn, w.conf_target, out) THEN "ok" ELSE "none",
                   !.wake = IF status_fn(w.fn, w.conf_target, out) THEN @ ELSE t + PollSleep]

watchIdle == <<calc, driverVars, chainVars, makerVars, asb, behaviour, wallet_tasks, mutexes>>

\* wallet.rs:218-225: watch_until_status(tx, status_fn) is called and awaited
WatchUntilStatus(w, f) ==
    /\ watch.pc = "idle"
    /\ watch.broadcast = "none"
    /\ watch' = [NoWatch EXCEPT !.pc = "poll", !.tx = w[1], !.script = w[2],
                                !.fn = f[1], !.conf_target = f[2]]
    /\ UNCHANGED <<clientIdle, watchIdle>>

\* wallet.rs:167-191 Wallet::broadcast: the finality future is created for
\* (txid, script of output 0), then the wallet hands the transaction to the
\* network (`ok`: it accepted it); the future is returned only then.
Broadcast(w, conf_target, ok) ==
    /\ watch.pc = "idle"
    /\ watch.broadcast = "none"
    /\ watch' = IF ok
                THEN [NoWatch EXCEPT !.pc = "poll", !.tx = w[1], !.script = w[2],
                                     !.fn = "finality", !.conf_target = conf_target,
                                     !.broadcast = "ok", !.published = TRUE]
                ELSE [NoWatch EXCEPT !.broadcast = "err"]
    /\ UNCHANGED <<clientIdle, watchIdle>>

\* wallet.rs:226-243: the future is polled: status_of_script, the log, the
\* predicate, and either the return or the start of the sleep
WatchPoll(fault) ==
    /\ \/ watch.pc = "poll"
       \/ watch.pc = "sleep" /\ now >= watch.wake
    /\ status_of_script(<<watch.tx, watch.script>>, fault)
    /\ watch' = poll(watch, ret'.out, now)
    /\ UNCHANGED watchIdle

WatchInit ==
    /\ NoSwap
    /\ WatcherIdle
    /\ ServicesIdle

WatchNext ==
    \/ \E w \in Watchables, f \in StatusFns : WatchUntilStatus(w, f)
    \/ \E w \in Watchables, t \in ConfTargets, ok \in BOOLEAN : Broadcast(w, t, ok)
    \/ \E fault \in Faults : WatchPoll(fault)
    \/ Tick
    \/ NewBlock
    \/ \E w \in Watchables : ServerSeesTx(w)
    \/ \E w \in Watchables : ServerConfirmsTx(w)

WatchSpec == WatchInit /\ [][WatchNext]_vars

\* The future has just been polled.
Polled == watch'.polls = watch.polls + 1

\* C21: the finality future of broadcast resolves successfully only at a
\* poll of status_of_script for (txid, script of output 0) that returns
\* Confirmed with depth + 1 >= finality_confirmations, and it is unresolved
\* while the last status is Unseen or InMempool; broadcast returns the future
\* exactly when the network accepted the transaction, and an error (with no
\* future ever polled) otherwise.
C21_FinalityOnlyWhenConfirmedEnough ==
    [][/\ (watch'.fn = "finality" /\ watch'.out = "ok" /\ watch.out # "ok")
             => /\ Polled
                /\ ret'.tx = watch.tx /\ ret'.script = watch.script
                /\ ret'.out.kind = "Confirmed"
                /\ ret'.out.depth + 1 >= watch.conf_target
       /\ (watch'.fn = "finality" /\ watch'.last_status.kind \in {"Unseen", "InMempool"})
             => watch'.out # "ok"
       /\ (watch'.broadcast # watch.broadcast)
             => /\ watch.broadcast = "none"
                /\ watch'.broadcast = (IF watch'.published THEN "ok" ELSE "err")
                /\ watch'.broadcast = "ok" => (watch'.pc = "poll" /\ watch'.fn = "finality")
                /\ watch'.broadcast = "err" => watch'.pc = "idle"
       /\ (watch.broadcast = "err") => watch' = watch
       /\ (watch.fn = "finality" /\ Polled)
             => (watch.broadcast = "ok" /\ watch' .tx = watch.tx /\ watch'.script = watch.script)
      ]_vars

\* C21 witness: a broadcast transaction reached a finality target above one
\* confirmation after polls that saw it unconfirmed.
C21_Witness ==
    /\ watch.broadcast = "ok"
    /\ watch.out = "ok"
    /\ watch.conf_target = 2
    /\ watch.polls >= 2
    /\ watch.last_status = ScriptStatus_Confirmed(Confirmed_new(1))

\* C22: a poll happens at the start or once the sleep of PollSleep that
\* began at the previous poll is over.  A poll that fails ends the wait with
\* that error, without evaluating the predicate or logging.  Any other poll
\* evaluates the predicate once, logs once exactly when the status differs
\* from the previous poll's (always at the first poll), and either returns
\* Ok, when the status satisfies the predicate, or starts the sleep.  The
\* wait returns at a poll only, and nothing happens after it returned.
C22_WatchUntilStatusLoop ==
    [][/\ Polled
          => /\ \/ watch.polls = 0 /\ watch.pc = "poll"
                \/ watch.polls > 0 /\ watch.pc = "sleep" /\ now >= watch.wake
             /\ IF ret'.out = Err
                THEN /\ watch'.out = "err"
                     /\ watch'.pc = "done"
                     /\ watch'.evals = watch.evals
                     /\ watch'.logs = watch.logs
                ELSE /\ watch'.evals = watch.evals + 1
                     /\ watch'.logs = watch.logs
                                       + (IF watch.polls = 0 \/ ret'.out # watch.last_status
                                          THEN 1 ELSE 0)
                     /\ watch'.last_status = ret'.out
                     /\ IF status_fn(watch.fn, watch.conf_target, ret'.out)
                        THEN watch'.out = "ok" /\ watch'.pc = "done"
                        ELSE /\ watch'.out = "none"
                             /\ watch'.pc = "sleep"
                             /\ watch'.wake = now + PollSleep
       /\ (watch'.out # watch.out) => (Polled /\ watch.out = "none")
       /\ (watch.pc = "done") => watch' = watch
       /\ (watch.pc = "sleep" /\ watch'.pc # "sleep") => Polled
      ]_vars

\* C22 witness: the wait returned Ok at its third poll, having logged two
\* different statuses, the second poll having repeated the first status.
C22_Witness ==
    /\ watch.out = "ok"
    /\ watch.fn = "is_confirmed_with"
    /\ watch.polls = 3
    /\ watch.evals = 3
    /\ watch.logs = 2

\* The scripts that are keys of script_history.
watched(history) == {s \in Scripts : history[s].key}

\* C30: a call of status_of_script that returns an error leaves latest_block,
\* the cached rows of every script and last_ping as they were; the set of
\* watched scripts only grows, by at most the script of the call.
C30_FailedCallLeavesCacheUnchanged ==
    [][/\ (Called /\ ret'.out = Err)
             => /\ latest_block' = latest_block
                /\ last_ping' = last_ping
                /\ \A s \in Scripts : script_history'[s].rows = script_history[s].rows
       /\ watched(script_history) \subseteq watched(script_history')
       /\ Called => watched(script_history') = watched(script_history) \cup {ret'.script}
      ]_vars

(***************************************************************************)
(* bin/asb.rs, main: the dispatcher task and the swap tasks it spawns.     *)
(* The event loop puts one record per accepted swap on the channel; a swap *)
(* task runs alice::run, which returns Ok or Err or panics (a panic        *)
(* unwinds the task and is caught by the runtime).                         *)
(***************************************************************************)
asbIdle == <<driverVars, chainVars, makerVars, watcherVars, watch, behaviour, wallet_tasks, mutexes>>

\* How run(swap) can end.
Outcomes == {"ok", "err", "panicked"}

\* asb.rs:113-118: what the task logs for the result of run(swap)
log_line(swap_id, outcome) ==
    IF outcome = "ok"
    THEN [swap_id |-> swap_id, level |-> "debug", msg |-> "Swap finished with state"]
    ELSE [swap_id |-> swap_id, level |-> "error", msg |-> "Swap failed with"]

\* asb.rs:126 event_loop.run(): the event loop sends the record of a new
\* swap through the sender half of the channel.
EventLoopSendsSwap ==
    /\ asb.event_loop = "running"
    /\ asb.created < MaxSwaps
    /\ asb' = [asb EXCEPT !.created = @ + 1, !.channel = Append(@, asb.created + 1)]
    /\ UNCHANGED asbIdle

\* asb.rs:108-110: swap_receiver.recv() yields the next record and the
\* dispatcher spawns a task for it
DispatcherSpawns ==
    /\ asb.dispatcher = "recv"
    /\ asb.channel # <<>>
    /\ asb' = [asb EXCEPT !.channel = Tail(@),
                          !.tasks[Head(asb.channel)] = "running",
                          !.spawns[Head(asb.channel)] = @ + 1]
    /\ UNCHANGED asbIdle

\* asb.rs:110-120: the task of swap_id: run(swap) ends and its result is
\* matched; a panic of run leaves the task before the match
SwapTaskEnds(swap_id, outcome) ==
    /\ asb.tasks[swap_id] = "running"
    /\ asb' = [asb EXCEPT !.tasks[swap_id] = outcome,
                          !.log = IF outcome = "panicked"
                                  THEN @
                                  ELSE Append(@, log_line(swap_id, outcome))]
    /\ UNCHANGED asbIdle

AsbInit ==
    /\ NoSwap
    /\ WatcherIdle
    /\ ServicesIdle

AsbNext ==
    \/ EventLoopSendsSwap
    \/ DispatcherSpawns
    \/ \E swap_id \in SwapIds, outcome \in Outcomes : SwapTaskEnds(swap_id, outcome)

AsbSpec == AsbInit /\ [][AsbNext]_vars

\* The log lines written under swap_id.
LinesOf(swap_id) == {i \in DOMAIN asb.log : asb.log[i].swap_id = swap_id}

\* Every record taken from the channel got one task, the dispatcher and the
\* event loop go on whatever the tasks do, and a task that returned has
\* logged exactly one line.
AsbIsolation ==
    /\ asb.dispatcher = "recv"
    /\ asb.event_loop = "running"
    /\ \A id \in SwapIds :
          /\ asb.spawns[id] <= 1
          /\ asb.spawns[id] = 1 <=> asb.tasks[id] # "none"
          /\ (id <= asb.created /\ asb.tasks[id] = "none")
                => \E i \in DOMAIN asb.channel : asb.channel[i] = id
          /\ asb.tasks[id] \in {"ok", "err"} => Cardinality(LinesOf(id)) = 1
          /\ asb.tasks[id] \in {"none", "running"} => LinesOf(id) = {}

\* C23: every record of the channel is driven by exactly one task, a task
\* that fails or panics stops neither the dispatcher nor the event loop, and
\* every task that has ended, by returning or by panicking, has exactly one
\* log line under its swap id.
C23_OneTaskPerSwapOutcomeLogged ==
    /\ AsbIsolation
    /\ \A id \in SwapIds :
          asb.tasks[id] \in Outcomes => Cardinality(LinesOf(id)) = 1

(***************************************************************************)
(* protocol/alice/encrypted_signature.rs: the maker's behaviour for the    *)
(* encrypted signature.  With event_process = false every event of the     *)
(* inner RequestResponse is converted by From and emitted as the           *)
(* behaviour's OutEvent.                                                   *)
(***************************************************************************)
MaxPeers == 3
MaxRequestId == 3

PeerIds == 1..MaxPeers
RequestIds == 1..MaxRequestId

\* EncryptedSignature messages
EncSigs == {1, 2}

\* encrypted_signature.rs:52: the protocol is registered for inbound requests only
ProtocolSupport == "Inbound"

\* libp2p::request_response::{InboundFailure, OutboundFailure}
InboundFailures == {"Timeout", "ConnectionClosed", "UnsupportedProtocols", "ResponseOmission"}
OutboundFailures == {"DialFailure", "Timeout", "ConnectionClosed", "UnsupportedProtocols"}

\* RequestResponseEvent<EncryptedSignature, ()>; the ResponseChannel of a
\* request is the one of its request id
RequestResponseEvents ==
    {[kind |-> "Request", peer |-> p, request_id |-> r, request |-> m, channel |-> r,
      error |-> "none"] : p \in PeerIds, r \in RequestIds, m \in EncSigs}
    \cup {[kind |-> k, peer |-> p, request_id |-> r, request |-> 0, channel |-> 0,
           error |-> "none"] : k \in {"Response", "ResponseSent"}, p \in PeerIds, r \in RequestIds}
    \cup {[kind |-> "InboundFailure", peer |-> p, request_id |-> r, request |-> 0,
           channel |-> 0, error |-> e] : p \in PeerIds, r \in RequestIds, e \in InboundFailures}
    \cup {[kind |-> "OutboundFailure", peer |-> p, request_id |-> r, request |-> 0,
           channel |-> 0, error |-> e] : p \in PeerIds, r \in RequestIds, e \in OutboundFailures}

\* enum OutEvent (encrypted_signature.rs:12-24)
MsgReceived(msg, channel, peer) ==
    [kind |-> "MsgReceived", peer |-> peer, msg |-> msg, channel |-> channel, error |-> <<>>]
AckSent ==
    [kind |-> "AckSent", peer |-> 0, msg |-> 0, channel |-> 0, error |-> <<>>]
Failure(peer, error) ==
    [kind |-> "Failure", peer |-> peer, msg |-> 0, channel |-> 0, error |-> error]

\* Variant of the conversion that takes a response for the acknowledgement.
OutEvent_from_response_as_ack(event) ==
    CASE event.kind = "Request" -> MsgReceived(event.request, event.channel, event.peer)
      [] event.kind = "Response" -> AckSent
      [] event.kind = "InboundFailure" -> Failure(event.peer, <<"Inbound failure", event.error>>)
      [] event.kind = "OutboundFailure" -> Failure(event.peer, <<"Outbound failure", event.error>>)
      [] event.kind = "ResponseSent" -> AckSent

\* encrypted_signature.rs:59-95 impl From<RequestResponseEvent<..>> for OutEvent
OutEvent_from(event) ==
    CASE event.kind = "Request" -> MsgReceived(event.request, event.channel, event.peer)
      [] event.kind = "Response" -> Failure(event.peer, <<"Alice should not get a Response">>)
      [] event.kind = "InboundFailure" -> Failure(event.peer, <<"Inbound failure", event.error>>)
      [] event.kind = "OutboundFailure" -> Failure(event.peer, <<"Outbound failure", event.error>>)
      [] event.kind = "ResponseSent" -> AckSent

behaviourIdle == <<driverVars, chainVars, makerVars, watcherVars, watch, asb, wallet_tasks, mutexes>>

\* The inner RequestResponse yields `event`; the behaviour emits its conversion.
EmitOutEvent(event) ==
    /\ behaviour' = [event |-> event, out |-> OutEvent_from(event)]
    /\ UNCHANGED behaviourIdle

BehaviourInit ==
    /\ NoSwap
    /\ WatcherIdle
    /\ ServicesIdle

BehaviourNext ==
    \E event \in RequestResponseEvents : EmitOutEvent(event)

BehaviourSpec == BehaviourInit /\ [][BehaviourNext]_vars

\* C24: the protocol is registered inbound-only, and every event is emitted
\* as exactly this out-event: a request as MsgReceived with its message, its
\* response channel and its peer; a response as Failure for its peer; an
\* inbound or outbound failure as Failure for its peer; ResponseSent as
\* AckSent.
C24_InboundOnlyEventMapping ==
    /\ ProtocolSupport = "Inbound"
    /\ behaviour.event.kind # "none" =>
          LET e == behaviour.event
              o == behaviour.out
          IN  /\ o.kind \in {"MsgReceived", "AckSent", "Failure"}
              /\ e.kind = "Request" <=> o.kind = "MsgReceived"
              /\ e.kind = "ResponseSent" <=> o.kind = "AckSent"
              /\ e.kind \in {"Response", "InboundFailure", "OutboundFailure"} <=> o.kind = "Failure"
              /\ o.kind = "MsgReceived"
                    => (o.msg = e.request /\ o.channel = e.channel /\ o.peer = e.peer)
              /\ o.kind = "Failure" => (o.peer = e.peer /\ o.error # <<>>)
              /\ e.kind \in {"InboundFailure", "OutboundFailure"} => o.error[2] = e.error

\* C24 witness: a response, which the maker never asked for, came out as a
\* Failure for the peer that sent it.
C24_Witness ==
    /\ behaviour.event.kind = "Response"
    /\ behaviour.event.peer = 2
    /\ behaviour.out.kind = "Failure"
    /\ behaviour.out.peer = 2

(***************************************************************************)
(* bitcoin/wallet.rs, Wallet shared by several tasks through an Arc: the   *)
(* two tokio Mutexes `client` and `wallet`.  Mutex::lock().await queues    *)
(* the task and hands the mutex to the waiters in the order they came; the *)
(* guard is a temporary that is dropped at the end of the statement that   *)
(* took it.  Taking a mutex and the synchronous call made under it are two *)
(* steps, so other tasks (the runtime has several threads) see it held.    *)
(***************************************************************************)
mutexIdle == <<calc, driverVars, chainVars, makerVars, watch, asb, behaviour>>

\* The transaction a task is concerned with (each task drives its own swap).
TaskTx(t) == IF t % 2 = 1 THEN <<1, "lock">> ELSE <<2, "cancel">>

\* The calls that lock `client`, those that lock `wallet`
ClientOps == {"status_of_script", "watch_until_status"}
WalletOps == {"sign_and_finalize", "broadcast"}

\* The server errors that occur during the calls of the tasks: none, or one
\* that makes status_of_script return Err.
TaskFaults == {"none", "history"}

\* The mutex a task at `at` waits for or holds.
MutexOf(at) ==
    IF at \in {"wait_client", "holds_client"} THEN "client" ELSE "wallet"

\* Mutex::lock(): the task joins the waiters
queued(m, t) == [mutexes EXCEPT ![m].waiters = Append(@, t)]

\* Variant in which the guard outlives the statement that took it.
released_never(m) == mutexes

\* the guard is dropped
released(m) == [mutexes EXCEPT ![m].holder = NoTask]

\* watch_until_status as the tasks call it: until the transaction has been seen
task_watch(t) ==
    [NoWatch EXCEPT !.pc = "poll", !.tx = TaskTx(t)[1], !.script = TaskTx(t)[2],
                    !.fn = "has_been_seen"]

\* wallet.rs:215, :231: a task calls status_of_script or watch_until_status
\* and reaches self.client.lock().await
CallClient(t, op) ==
    /\ wallet_tasks[t].pc = "idle"
    /\ wallet_tasks' = [wallet_tasks EXCEPT ![t] =
          [pc |-> "wait_client", op |-> op, wake |-> 0]]
    /\ mutexes' = queued("client", t)
    /\ UNCHANGED <<clientIdle, mutexIdle>>

\* wallet.rs:180-182, :194: a task calls broadcast or sign_and_finalize and
\* reaches self.wallet.lock().await
CallWallet(t, op) ==
    /\ wallet_tasks[t].pc = "idle"
    /\ wallet_tasks' = [wallet_tasks EXCEPT ![t] =
          [pc |-> "wait_wallet", op |-> op, wake |-> 0]]
    /\ mutexes' = queued("wallet", t)
    /\ UNCHANGED <<clientIdle, mutexIdle>>

\* tokio::sync::Mutex: the free mutex goes to the first waiter
Acquire(t) ==
    /\ wallet_tasks[t].pc \in {"wait_client", "wait_wallet"}
    /\ LET m == MutexOf(wallet_tasks[t].pc) IN
          /\ mutexes[m].holder = NoTask
          /\ mutexes[m].waiters # <<>>
          /\ Head(mutexes[m].waiters) = t
          /\ mutexes' = [mutexes EXCEPT ![m].holder = t, ![m].waiters = Tail(@)]
          /\ wallet_tasks' = [wallet_tasks EXCEPT
                ![t].pc = IF m = "client" THEN "holds_client" ELSE "holds_wallet"]
    /\ UNCHANGED <<clientIdle, mutexIdle>>

\* wallet.rs:215 and :231-243: under the client guard the task calls
\* Client::status_of_script; the guard is dropped with the statement; then
\* status_of_script returns to its caller, and watch_until_status evaluates
\* the predicate and returns to its caller or starts its sleep
ClientCall(t, fault) ==
    /\ wallet_tasks[t].pc = "holds_client"
    /\ status_of_script(TaskTx(t), fault)
    /\ mutexes' = released("client")
    /\ wallet_tasks' = [wallet_tasks EXCEPT ![t] =
          IF @.op = "status_of_script"
          THEN NoCall
          ELSE LET after == poll(task_watch(t), ret'.out, now) IN
               IF after.pc = "sleep" THEN [@ EXCEPT !.pc = "sleep", !.wake = after.wake]
               ELSE NoCall]
    /\ UNCHANGED mutexIdle

\* wallet.rs:242: the sleep is over, the loop reaches self.client.lock().await
Wake(t) ==
    /\ wallet_tasks[t].pc = "sleep"
    /\ now >= wallet_tasks[t].wake
    /\ wallet_tasks' = [wallet_tasks EXCEPT ![t].pc = "wait_client", ![t].wake = 0]
    /\ mutexes' = queued("client", t)
    /\ UNCHANGED <<clientIdle, mutexIdle>>

\* wallet.rs:179-190 and :194-202: under the wallet guard the task calls
\* bdk's broadcast or sign (`ok`: it succeeded); the guard is dropped with
\* the statement and the call returns Ok or Err to its caller
WalletCall(t, ok) ==
    /\ wallet_tasks[t].pc = "holds_wallet"
    /\ mutexes' = released("wallet")
    /\ wallet_tasks' = [wallet_tasks EXCEPT ![t] = NoCall]
    /\ UNCHANGED <<clientIdle, mutexIdle>>

MutexInit ==
    /\ NoSwap
    /\ WatcherIdle
    /\ ServicesIdle

MutexTasks ==
    \/ \E t \in TaskIds, op \in ClientOps : CallClient(t, op)
    \/ \E t \in TaskIds, op \in WalletOps : CallWallet(t, op)
    \/ \E t \in TaskIds : Acquire(t)
    \/ \E t \in TaskIds, fault \in TaskFaults : ClientCall(t, fault)
    \/ \E t \in TaskIds : Wake(t)
    \/ \E t \in TaskIds, ok \in BOOLEAN : WalletCall(t, ok)

MutexNext ==
    \/ MutexTasks
    \/ Tick
    \/ \E w \in Watchables : ServerSeesTx(w)

\* The steps of task t that wait for nothing but the runtime: taking a free
\* mutex as the first waiter, and the synchronous call made under a guard.
Runs(t) ==
    \/ Acquire(t)
    \/ \E fault \in TaskFaults : ClientCall(t, fault)
    \/ \E ok \in BOOLEAN : WalletCall(t, ok)

MutexSpec == MutexInit /\ [][MutexNext]_vars

\* The tasks that wait for mutex m, the task that holds it.
WaitingFor(m) ==
    {t \in TaskIds : wallet_tasks[t].pc \in {"wait_client", "wait_wallet"}
                     /\ MutexOf(wallet_tasks[t].pc) = m}
HolderOf(m) == mutexes[m].holder

\* Each mutex is held exactly by a task inside the one call it took it for,
\* its waiters are the tasks at its lock().await, each once.
GuardsAreShort ==
    /\ \A t \in TaskIds :
          /\ HolderOf("client") = t <=> wallet_tasks[t].pc = "holds_client"
          /\ HolderOf("wallet") = t <=> wallet_tasks[t].pc = "holds_wallet"
          /\ ~(HolderOf("client") = t /\ HolderOf("wallet") = t)
          /\ wallet_tasks[t].pc = "sleep" => (HolderOf("client") # t /\ HolderOf("wallet") # t)
    /\ \A m \in {"client", "wallet"} :
          /\ Range(mutexes[m].waiters) = WaitingFor(m)
          /\ Len(mutexes[m].waiters) = Cardinality(WaitingFor(m))
          /\ HolderOf(m) \notin WaitingFor("client") \cup WaitingFor("wallet")

\* Whenever tasks wait for a mutex, a task can run that brings them forward:
\* the first waiter can take the free mutex, or the holder can make its call
\* and drop the guard.  A sleeping task is never the one they wait for.
NobodyBlocks ==
    \A m \in {"client", "wallet"} :
       WaitingFor(m) # {} =>
          IF HolderOf(m) = NoTask
          THEN ENABLED Acquire(Head(mutexes[m].waiters))
          ELSE /\ wallet_tasks[HolderOf(m)].pc # "sleep"
               /\ ENABLED Runs(HolderOf(m))

\* C31: no task holds both mutexes; the client mutex is held only by a task
\* inside one status_of_script call, never by a task in the sleep of
\* watch_until_status; every call of status_of_script is made by the holder
\* of the client mutex, which drops it with the call, so the calls of
\* different tasks do not overlap; and no state is a deadlock: whatever the
\* other tasks do and however long they sleep, the tasks that wait for a
\* mutex can be brought forward by a task that waits for nothing.
C31_MutexDiscipline ==
    /\ []GuardsAreShort
    /\ []NobodyBlocks
    /\ [][Called => /\ HolderOf("client") # NoTask
                    /\ wallet_tasks[HolderOf("client")].pc = "holds_client"
                    /\ mutexes'["client"].holder = NoTask
                    /\ mutexes'["wallet"] = mutexes["wallet"]]_vars

\* C31 witness: while one task sleeps between two polls of
\* watch_until_status, another holds the client mutex for its own poll, and
\* the wallet mutex is free.
C31_Witness ==
    \E t, u \in TaskIds :
       /\ t # u
       /\ wallet_tasks[t].pc = "sleep"
       /\ wallet_tasks[t].op = "watch_until_status"
       /\ wallet_tasks[u].pc = "holds_client"
       /\ HolderOf("wallet") = NoTask

====
